---- MODULE Spec2Model ----
(***************************************************************************)
(* Semantic-locator layer of postedworkers-automation                      *)
(* (src/utils/elements.ts): the strategy chains of fillTextByLabel,        *)
(* selectMatOptionByLabel, setRadioByLabel, setCheckboxByLabel and         *)
(* clickProceed, run step by step (one awaited Playwright call per step)   *)
(* against an abstract page; the notification flow that calls them         *)
(* (src/tests/e2e-notification-flow.spec.ts), one awaited call per step;   *)
(* and the postal-code lookup (src/utils/pdok.ts).  A behaviour is one of  *)
(* the three: calls on one page, one run of the flow, or one lookup.       *)
(***************************************************************************)
EXTENDS Integers, Sequences, FiniteSets, TLC

VARIABLES
  call,      \* the running call: operation name and its arguments
  pc,        \* position inside the running call
  strat,     \* the strategy (try block) the call is in
  el,        \* the element handle the current strategy holds
  layout,    \* static markup of the page: labels, wrappers, associations
  inputs,    \* text inputs of the page: value and behaviour
  boxes,     \* checkboxes of the page: checked or not
  radios,    \* radio groups of the page: the checked option of each
  sel,       \* the select control: option list open or not, selected text
  btn,       \* the proceed button: enabled or not, clicks delivered to it
  trace,     \* what this call did so far: probes and actions per strategy
  completed, \* the strategies of this call that ran to their end
  outcome,   \* "running", returned, or the failure thrown to the caller
  ncalls,    \* calls started on this page
  before,    \* the page as the running call found it, and how the call
             \* before it ended
  run,       \* the run of the notification flow: position, steps done, end
  lookup     \* the postal-code lookup: response, position in it, result

vars == <<call, pc, strat, el, layout, inputs, boxes, radios, sel, btn, trace,
         completed, outcome, ncalls, before, run, lookup>>

\* The mutable part of the page.
domvars == <<inputs, boxes, radios, sel, btn>>

\* The state of the flow run and of the lookup, which the operations of the
\* locator layer do not touch.
flowvars == <<run, lookup>>

\* Calls made on one page in one behaviour.
MaxCalls == 2

-----------------------------------------------------------------------------
(* Texts are sequences of characters, so that exact and substring          *)
(* matching are computed and not assumed.                                  *)

Lower(c) ==
  CASE c = "C" -> "c"
    [] c = "N" -> "n"
    [] c = "Y" -> "y"
    [] c = "O" -> "o"
    [] OTHER -> c

LowerSeq(t) == [i \in 1..Len(t) |-> Lower(t[i])]

ContainsText(t, n) ==
  \E i \in 1..(Len(t) - Len(n) + 1) : SubSeq(t, i, i + Len(n) - 1) = n

\* Playwright :has-text("...") / { hasText }: case-insensitive substring.
HasText(t, n) == ContainsText(LowerSeq(t), LowerSeq(n))

\* Playwright { exact: true }: whole string, case-sensitive.
ExactText(t, n) == t = n

-----------------------------------------------------------------------------
(* The chains: which strategies each operation has, in code order.         *)

\* Chains in which the raw-DOM strategy comes before the component-library
\* one.
ChainRawBeforeWrapper(op) ==
  CASE op = "fillTextByLabel"        -> <<"acc", "raw">>
    [] op = "selectMatOptionByLabel" -> <<"acc", "raw", "bq">>
    [] op = "setRadioByLabel"        -> <<"acc", "raw", "bq">>
    [] op = "setCheckboxByLabel"     -> <<"acc", "acc2", "raw", "bq">>
    [] OTHER                         -> <<"main">>

Chain(op) ==
  CASE op = "fillTextByLabel"        -> <<"acc", "raw">>
    [] op = "selectMatOptionByLabel" -> <<"acc", "bq", "raw">>
    [] op = "setRadioByLabel"        -> <<"acc", "bq", "raw">>
    [] op = "setCheckboxByLabel"     -> <<"acc", "acc2", "bq", "raw">>
    [] OTHER                         -> <<"main">>

StratIndex(op, s) == CHOOSE i \in 1..Len(Chain(op)) : Chain(op)[i] = s

\* A strategy is wrapped in try { ... } catch {} unless it is the last one.
InTry(op, s) == StratIndex(op, s) < Len(Chain(op))

NextStrategy(op, s) == Chain(op)[StratIndex(op, s) + 1]

\* First step of a strategy.
StrategyEntry(op, s) ==
  CASE op = "fillTextByLabel" /\ s = "acc" -> "fill_acc_probe"
    [] op = "fillTextByLabel" /\ s = "raw" -> "fill_raw_label"
    [] op = "setCheckboxByLabel" /\ s = "acc"  -> "cb_acc"
    [] op = "setCheckboxByLabel" /\ s = "acc2" -> "cb_acc2"
    [] op = "setCheckboxByLabel" /\ s = "bq"   -> "cb_bq_probe"
    [] op = "setCheckboxByLabel" /\ s = "raw"  -> "cb_raw_label"
    [] op = "setRadioByLabel" /\ s = "acc" -> "rd_acc"
    [] op = "setRadioByLabel" /\ s = "bq"  -> "rd_bq_probe"
    [] op = "setRadioByLabel" /\ s = "raw" -> "rd_raw_probe"
    [] op = "selectMatOptionByLabel" /\ s = "acc" -> "sel_acc_click"
    [] op = "selectMatOptionByLabel" /\ s = "bq"  -> "sel_bq_probe"
    [] op = "selectMatOptionByLabel" /\ s = "raw" -> "sel_raw_label"
    [] op = "clickProceed" -> "pr_visible"
    [] OTHER -> "done"

\* A chain whose try blocks do not return: a strategy that ran to its end is
\* followed by the next one.
AfterSuccessFallThrough(op, s) ==
  IF InTry(op, s) THEN StrategyEntry(op, NextStrategy(op, s)) ELSE "done"

\* Where a strategy that ran to its end goes: every try block ends in return.
AfterSuccess(op, s) == "done"

-----------------------------------------------------------------------------
(* Failures.  The code throws whatever Playwright throws; a failure is     *)
(* recorded by the awaited call that threw and the texts its locator was   *)
(* built from (Playwright prints the locator in the error message).        *)

Running == [status |-> "running",  step |-> "none", refs |-> {}]
Returned == [status |-> "returned", step |-> "none", refs |-> {}]
Thrown(step, refs) == [status |-> "thrown", step |-> step, refs |-> refs]

\* The failure classes of the error taxonomy, by the wait that elapsed.
FailureKind(step) ==
  CASE step \in {"waitFor", "toBeVisible"} -> "ResolutionFailed"
    [] step = "toHaveValue"                -> "VerificationFailed"
    [] step \in {"toBeEnabled", "testTimeout"} -> "Timeout"
    [] OTHER                               -> "NotActionable"

Event(s, a, e) == [s |-> s, a |-> a, el |-> e]

\* expect: { timeout: 15 * 1000 } of the configuration.
ExpectTimeout == 15000

\* The time in ms after which the awaited call that fails with `step` at
\* position p gives up of its own: the timeout it is called with, or the
\* expect timeout of the configuration; 0 when it has neither (the
\* configuration sets no actionTimeout and no navigationTimeout), so that it
\* waits until the test timeout of 120 s ends the test.
Bound(p, step) ==
  CASE step = "waitFor"                              -> 1000
    [] step = "toBeVisible" /\ p = "pr_visible"      -> 10000
    [] step = "toBeVisible"                          -> ExpectTimeout
    [] step = "toBeEnabled"                          -> 10000
    [] step = "toHaveValue"                          -> ExpectTimeout
    [] step = "click" /\ p = "so_text"               -> 0
    [] step = "click"                                -> 1000
    [] step = "check" /\ p = "rd_raw_check"          -> 0
    [] step = "check"                                -> 1000
    [] step = "waitForLoadState"                     -> 0
    [] OTHER                                         -> 0

\* A throw inside strategy `strat`: swallowed by the strategy's empty catch,
\* which lets the chain advance, or thrown to the caller from the last one.
\* A call without a bound of its own does not throw: it waits until the
\* test is ended by its timeout, and the call with it.
Raise(step, refs) ==
  IF Bound(pc, step) = 0
  THEN /\ pc' = "done"
       /\ outcome' = Thrown("testTimeout", refs)
       /\ UNCHANGED <<strat, el, completed>>
  ELSE IF InTry(call.op, strat)
  THEN /\ pc' = StrategyEntry(call.op, NextStrategy(call.op, strat))
       /\ strat' = NextStrategy(call.op, strat)
       /\ el' = "none"
       /\ outcome' = outcome
       /\ completed' = completed
  ELSE /\ pc' = "done"
       /\ outcome' = Thrown(step, refs)
       /\ UNCHANGED <<strat, el, completed>>

\* A strategy ran to its end.
Complete ==
  LET p == AfterSuccess(call.op, strat) IN
  /\ pc' = p
  /\ completed' = Append(completed, strat)
  /\ IF p = "done"
     THEN outcome' = Returned /\ strat' = strat /\ el' = el
     ELSE outcome' = outcome /\ strat' = NextStrategy(call.op, strat) /\ el' = "none"

Goto(p, e) == pc' = p /\ el' = e /\ UNCHANGED <<strat, outcome, completed>>

-----------------------------------------------------------------------------
(* Text fields.                                                            *)

LabelText == <<"C", "i", "t", "y">>
\* The same label with a required-field marker: contains LabelText, is not
\* equal to it.
LabelTextStar == <<"C", "i", "t", "y", "*">>
\* The label of another field, which contains LabelText.
OtherLabelText == <<"c", "i", "t", "y", "2">>

FillValues == {<<"1">>, <<"1", "2">>}
InitialValues == {<<>>, <<"1">>, <<"9">>}

\* How a field reacts to input: "plain" takes everything; "revertBulk"
\* undoes a programmatic bulk set and keeps its content; "blankBulk" empties
\* itself on a bulk set; "dead" empties itself and drops keystrokes as well.
FieldModes == {"plain", "revertBulk", "blankBulk", "dead"}

\* locator.fill(v): the content of the field afterwards.
BulkSet(mode, old, v) ==
  CASE mode = "plain"      -> v
    [] mode = "revertBulk" -> old
    [] OTHER               -> <<>>

\* locator.pressSequentially(v): keystrokes are appended to the content.
Keystrokes(mode, old, v) == IF mode = "dead" THEN old ELSE old \o v

\* A label element: its text, its for attribute ("" when it has none), the
\* first input or textarea under its parent, the input nested inside it, the
\* control a click on it acts on, and whether it is visible.
Label(id, text, for, parentInput, nested, target, visible) ==
  [id |-> id, text |-> text, for |-> for, parentInput |-> parentInput,
   nested |-> nested, target |-> target, visible |-> visible]

NoLabel == Label("none", <<>>, "", "none", "none", "none", FALSE)

FieldLabel(id, text, for, parentInput, visible) ==
  Label(id, text, for, parentInput, "none", "none", visible)

\* Markups of a page with the text field "i1" the caller means and another
\* field "i2": labels in document order, aria-label per input.  A label
\* without for attribute names the first input under its parent, which is
\* the field it labels or, in a container holding several inputs, another.
FillLayouts ==
  { [kind |-> "fill", designated |-> "i1", labels |-> ls, aria |-> ar] :
      ls \in { <<FieldLabel("l1", LabelText, "i1", "none", TRUE)>>,
               <<FieldLabel("l1", LabelTextStar, "i1", "none", TRUE)>>,
               <<FieldLabel("l1", LabelText, "", "i1", TRUE)>>,
               <<FieldLabel("l1", LabelText, "", "i2", TRUE)>>,
               <<FieldLabel("l1", LabelText, "gone", "i1", TRUE)>>,
               <<FieldLabel("l1", LabelTextStar, "i1", "none", FALSE)>>,
               <<FieldLabel("l2", OtherLabelText, "i2", "none", TRUE),
                 FieldLabel("l1", LabelText, "i1", "none", TRUE)>> },
      ar \in { [i \in {"i1", "i2"} |-> <<>>] } }
  \cup
  { [kind |-> "fill", designated |-> "i1", labels |-> <<>>,
     aria |-> [i \in {"i1", "i2"} |-> IF i = "i1" THEN LabelText ELSE <<>>]] }

LabelById(id) ==
  IF \E i \in 1..Len(layout.labels) : layout.labels[i].id = id
  THEN layout.labels[CHOOSE i \in 1..Len(layout.labels) : layout.labels[i].id = id]
  ELSE NoLabel

\* The accessible names of control i: its aria-label and the texts of the
\* label elements that point at it with for or that wrap it.
AccNames(i) ==
  (IF layout.aria[i] # <<>> THEN {layout.aria[i]} ELSE {})
  \cup { layout.labels[k].text : k \in { j \in 1..Len(layout.labels) :
            layout.labels[j].for = i \/ layout.labels[j].nested = i } }

\* getByLabel(text, { exact: true }) among the controls in ids.
GetByLabel(ids, text) ==
  { i \in ids : \E n \in AccNames(i) : ExactText(n, text) }

\* getByRole(role, { name: text }) among the controls in ids: the accessible
\* name contains the text, case-insensitively.
GetByRoleName(ids, text) ==
  { i \in ids : \E n \in AccNames(i) : HasText(n, text) }

\* page.locator('label:has-text("text")').first()
FirstLabelHasText(text) ==
  LET ms == SelectSeq(layout.labels, LAMBDA l : HasText(l.text, text))
  IN IF ms = <<>> THEN NoLabel ELSE Head(ms)

\* A choice that turns to the parent's first input when #for finds nothing.
RawTargetFallsBack(label) ==
  IF label.for # "" /\ label.for \in DOMAIN inputs /\ inputs[label.for].visible
  THEN label.for
  ELSE label.parentInput

\* The input the raw-DOM strategy takes for a label: #for when the label has
\* a for attribute, else the first input or textarea under the label's parent.
RawTarget(label) ==
  IF label.for # ""
  THEN IF label.for \in DOMAIN inputs THEN label.for ELSE "none"
  ELSE label.parentInput

\* Texts printed with the locator the current strategy acts on.
LocatorRefs ==
  IF strat = "raw" /\ FirstLabelHasText(call.label).for # ""
  THEN {<<"#">> \o <<FirstLabelHasText(call.label).for>>}
  ELSE {call.label}

-----------------------------------------------------------------------------
(* setInputValue (click, fill, read back, clear and retype, verify, Tab).  *)

SetValue(i, v) == [inputs EXCEPT ![i].value = v]

SetInputClick ==
  /\ pc = "si_click"
  /\ IF inputs[el].clickable
     THEN /\ Goto("si_fill", el)
          /\ trace' = Append(trace, Event(strat, "click", el))
     ELSE /\ Raise("click", LocatorRefs)
          /\ trace' = Append(trace, Event(strat, "clickFailed", el))
  /\ UNCHANGED <<call, before, flowvars, layout, domvars, ncalls>>

SetInputFill ==
  /\ pc = "si_fill"
  /\ inputs' = SetValue(el, BulkSet(inputs[el].mode, inputs[el].value, call.value))
  /\ trace' = Append(trace, Event(strat, "fill", el))
  /\ Goto("si_read", el)
  /\ UNCHANGED <<call, before, flowvars, layout, boxes, radios, sel, btn, ncalls>>

\* A read-back that never asks for the keystroke entry.
NeedsRetypeNever(current, v) == FALSE

\* if ((await input.inputValue()) !== value)
NeedsRetype(current, v) == current # v

SetInputReadBack ==
  /\ pc = "si_read"
  /\ IF NeedsRetype(inputs[el].value, call.value)
     THEN Goto("si_clear", el)
     ELSE Goto("si_verify", el)
  /\ trace' = Append(trace, Event(strat, IF inputs[el].value = call.value
                                          THEN "readSame" ELSE "readDiffers", el))
  /\ UNCHANGED <<call, before, flowvars, layout, domvars, ncalls>>

SetInputClear ==
  /\ pc = "si_clear"
  /\ inputs' = SetValue(el, BulkSet(inputs[el].mode, inputs[el].value, <<>>))
  /\ trace' = Append(trace, Event(strat, "clear", el))
  /\ Goto("si_type", el)
  /\ UNCHANGED <<call, before, flowvars, layout, boxes, radios, sel, btn, ncalls>>

SetInputType ==
  /\ pc = "si_type"
  /\ inputs' = SetValue(el, Keystrokes(inputs[el].mode, inputs[el].value, call.value))
  /\ trace' = Append(trace, Event(strat, "type", el))
  /\ Goto("si_verify", el)
  /\ UNCHANGED <<call, before, flowvars, layout, boxes, radios, sel, btn, ncalls>>

\* A value check that accepts whatever the field holds.
ValueCheckSkipped(i, v) == TRUE

\* expect(input).toHaveValue(value)
ValueCheckPasses(i, v) == inputs[i].value = v

SetInputVerify ==
  /\ pc = "si_verify"
  /\ IF ValueCheckPasses(el, call.value)
     THEN /\ Goto("si_tab", el)
          /\ trace' = Append(trace, Event(strat, "verified", el))
     ELSE /\ Raise("toHaveValue", LocatorRefs)
          /\ trace' = Append(trace, Event(strat, "verifyFailed", el))
  /\ UNCHANGED <<call, before, flowvars, layout, domvars, ncalls>>

\* A Tab press whose failure is thrown.
SetInputTabFatal ==
  /\ pc = "si_tab"
  /\ \E pressed \in BOOLEAN :
       IF pressed
       THEN /\ trace' = Append(trace, Event(strat, "tab", el))
            /\ Complete
       ELSE /\ trace' = Append(trace, Event(strat, "tabFailed", el))
            /\ Raise("press", LocatorRefs)
  /\ UNCHANGED <<call, before, flowvars, layout, domvars, ncalls>>

\* input.press('Tab').catch(() => {}): the press may fail, nothing is thrown.
SetInputTab ==
  /\ pc = "si_tab"
  /\ \E pressed \in BOOLEAN :
       trace' = Append(trace, Event(strat, IF pressed THEN "tab" ELSE "tabFailed", el))
  /\ Complete
  /\ UNCHANGED <<call, before, flowvars, layout, domvars, ncalls>>

-----------------------------------------------------------------------------
(* fillTextByLabel                                                         *)

\* A visibility probe that lets an input pass that is not visible.
VisibleInputUnchecked(matches) == Cardinality(matches) = 1

\* expect(locator).toBeVisible(): the locator resolves to one visible input.
VisibleInput(matches) ==
  /\ Cardinality(matches) = 1
  /\ \A i \in matches : inputs[i].visible

FillAccProbe ==
  /\ pc = "fill_acc_probe"
  /\ LET matches == GetByLabel(DOMAIN inputs, call.label) IN
     IF VisibleInput(matches)
     THEN /\ Goto("si_click", CHOOSE i \in matches : TRUE)
          /\ trace' = Append(trace, Event("acc", "resolved", CHOOSE i \in matches : TRUE))
     ELSE /\ Raise("toBeVisible", {call.label})
          /\ trace' = Append(trace, Event("acc", "miss", "none"))
  /\ UNCHANGED <<call, before, flowvars, layout, domvars, ncalls>>

FillRawLabel ==
  /\ pc = "fill_raw_label"
  /\ LET label == FirstLabelHasText(call.label) IN
     IF label.visible
     THEN /\ Goto("fill_raw_input", label.id)
          /\ trace' = Append(trace, Event("raw", "label", label.id))
     ELSE /\ Raise("waitFor", {call.label})
          /\ trace' = Append(trace, Event("raw", "miss", "none"))
  /\ UNCHANGED <<call, before, flowvars, layout, domvars, ncalls>>

FillRawInput ==
  /\ pc = "fill_raw_input"
  /\ LET label == LabelById(el)
         target == RawTarget(label)
     IN IF target # "none" /\ inputs[target].visible
        THEN /\ Goto("si_click", target)
             /\ trace' = Append(trace, Event("raw", "resolved", target))
        ELSE /\ Raise("toBeVisible",
                      IF label.for # "" THEN {<<"#">> \o <<label.for>>} ELSE {call.label})
             /\ trace' = Append(trace, Event("raw", "miss", "none"))
  /\ UNCHANGED <<call, before, flowvars, layout, domvars, ncalls>>

-----------------------------------------------------------------------------
(* Checkboxes.                                                             *)

\* Markups of a page with the checkbox "c1" the caller means and another
\* checkbox "c2": the labels in document order, whether a bq-checkbox
\* wrapper holds them, aria-label, whether the input itself can be clicked
\* (a real input hidden behind a styled wrapper cannot), whether the input
\* is visible at all (one that is not cannot be clicked), whether the labels
\* can be clicked.
CheckboxLabelings ==
  { <<Label("l1", LabelText, "c1", "none", "none", "c1", TRUE)>>,
    <<Label("l1", LabelTextStar, "c1", "none", "none", "c1", TRUE)>>,
    <<Label("l1", LabelText, "", "none", "c1", "c1", TRUE)>>,
    <<Label("l1", LabelText, "", "c1", "none", "c1", TRUE)>>,
    <<Label("l1", LabelText, "", "c1", "none", "none", TRUE)>>,
    <<Label("l1", LabelText, "gone", "c1", "none", "none", TRUE)>>,
    <<Label("l1", LabelText, "c1", "none", "none", "c1", FALSE)>>,
    <<Label("l2", OtherLabelText, "c2", "none", "none", "c2", TRUE),
      Label("l1", LabelText, "c1", "none", "none", "c1", TRUE)>>,
    <<>> }

CheckboxLayouts ==
  { l \in
  { [kind |-> "checkbox", designated |-> "c1", labels |-> ls,
     bqLabels |-> IF bq THEN [k \in 1..Len(ls) |-> ls[k].id] ELSE <<>>,
     aria |-> [i \in {"c1", "c2"} |-> IF i = "c1" THEN ar ELSE <<>>],
     actionable |-> [i \in {"c1", "c2"} |-> IF i = "c1" THEN act ELSE TRUE],
     shown |-> [i \in {"c1", "c2"} |-> IF i = "c1" THEN sh ELSE TRUE],
     labelsClickable |-> lc] :
      ls \in CheckboxLabelings, bq \in BOOLEAN, ar \in {<<>>, LabelText},
      act \in BOOLEAN, sh \in BOOLEAN, lc \in BOOLEAN } :
    l.actionable["c1"] => l.shown["c1"] }

\* locator.check() on the controls a locator matches: it needs exactly one
\* match; a checked control is left alone, an unchecked one is clicked, which
\* needs the control to be actionable.
CanCheck(matches, checkedOnes) ==
  /\ Cardinality(matches) = 1
  /\ \A i \in matches : i \in checkedOnes \/ layout.actionable[i]

CheckedBoxes == { i \in DOMAIN boxes : boxes[i] }

\* The labels inside the component-library wrapper that contain the text.
WrapperLabels(text) ==
  SelectSeq([k \in 1..Len(layout.bqLabels) |-> LabelById(layout.bqLabels[k])],
            LAMBDA l : HasText(l.text, text))

\* A click on a label toggles the checkbox the label acts on.
ClickBoxLabel(label) ==
  IF label.target \in DOMAIN boxes
  THEN [boxes EXCEPT ![label.target] = ~@]
  ELSE boxes

CbCheck(s, matches) ==
  IF CanCheck(matches, CheckedBoxes)
  THEN /\ boxes' = [i \in DOMAIN boxes |-> boxes[i] \/ i \in matches]
       /\ trace' = Append(trace, Event(s, "check", CHOOSE i \in matches : TRUE))
       /\ Complete
  ELSE /\ boxes' = boxes
       /\ trace' = Append(trace, IF Cardinality(matches) = 1
                                 THEN Event(s, "checkFailed", CHOOSE i \in matches : TRUE)
                                 ELSE Event(s, "miss", "none"))
       /\ Raise("check", {call.label})

CbAcc ==
  /\ pc = "cb_acc"
  /\ CbCheck("acc", GetByRoleName(DOMAIN boxes, call.label))
  /\ UNCHANGED <<call, before, flowvars, layout, inputs, radios, sel, btn, ncalls>>

CbAcc2 ==
  /\ pc = "cb_acc2"
  /\ CbCheck("acc2", GetByLabel(DOMAIN boxes, call.label))
  /\ UNCHANGED <<call, before, flowvars, layout, inputs, radios, sel, btn, ncalls>>

CbBqProbe ==
  /\ pc = "cb_bq_probe"
  /\ IF WrapperLabels(call.label) # <<>>
     THEN /\ Goto("cb_bq_click", Head(WrapperLabels(call.label)).id)
          /\ trace' = Append(trace, Event("bq", "resolved", Head(WrapperLabels(call.label)).id))
     ELSE /\ Raise("waitFor", {call.label})
          /\ trace' = Append(trace, Event("bq", "miss", "none"))
  /\ UNCHANGED <<call, before, flowvars, layout, domvars, ncalls>>

CbBqClick ==
  /\ pc = "cb_bq_click"
  /\ IF LabelById(el).visible /\ layout.labelsClickable
     THEN /\ boxes' = ClickBoxLabel(LabelById(el))
          /\ trace' = Append(trace, Event("bq", "click", el))
          /\ Complete
     ELSE /\ boxes' = boxes
          /\ trace' = Append(trace, Event("bq", "clickFailed", el))
          /\ Raise("click", {call.label})
  /\ UNCHANGED <<call, before, flowvars, layout, inputs, radios, sel, btn, ncalls>>

CbRawLabel ==
  /\ pc = "cb_raw_label"
  /\ LET label == FirstLabelHasText(call.label) IN
     IF label.visible
     THEN /\ Goto("cb_raw_check", label.id)
          /\ trace' = Append(trace, Event("raw", "label", label.id))
     ELSE /\ Raise("waitFor", {call.label})
          /\ trace' = Append(trace, Event("raw", "miss", "none"))
  /\ UNCHANGED <<call, before, flowvars, layout, domvars, ncalls>>

\* The checkbox the raw-DOM strategy takes for a label: #for when the label
\* has a for attribute, else the checkbox input inside the label.
RawBox(label) ==
  LET i == IF label.for # "" THEN label.for ELSE label.nested
  IN IF i \in DOMAIN boxes THEN {i} ELSE {}

CbRawCheck ==
  /\ pc = "cb_raw_check"
  /\ LET matches == RawBox(LabelById(el)) IN
     IF CanCheck(matches, CheckedBoxes)
     THEN /\ boxes' = [i \in DOMAIN boxes |-> boxes[i] \/ i \in matches]
          /\ trace' = Append(trace, Event("raw", "check", CHOOSE i \in matches : TRUE))
          /\ Complete
     ELSE /\ boxes' = boxes
          /\ trace' = Append(trace, Event("raw", "checkFailed", el))
          /\ Goto("cb_raw_click", el)
  /\ UNCHANGED <<call, before, flowvars, layout, inputs, radios, sel, btn, ncalls>>

CbRawClick ==
  /\ pc = "cb_raw_click"
  /\ IF layout.labelsClickable
     THEN /\ boxes' = ClickBoxLabel(LabelById(el))
          /\ trace' = Append(trace, Event("raw", "click", el))
          /\ Complete
     ELSE /\ boxes' = boxes
          /\ trace' = Append(trace, Event("raw", "clickFailed", el))
          /\ Raise("click", {call.label})
  /\ UNCHANGED <<call, before, flowvars, layout, inputs, radios, sel, btn, ncalls>>

-----------------------------------------------------------------------------
(* Radio groups.                                                           *)

OptionText == <<"N", "o">>
\* A group label that does not contain the option text, and one that does
\* (as "Once-a-year notification?" contains "No").
GroupTextPlain == <<"Q", "1", "?">>
GroupTextWithOption == <<"a", "n", "o", "t", "?">>
\* The other option of the group: unrelated, or containing the option text.
OtherOptionTexts == {<<"Y", "e", "s">>, <<"N", "o", "n", "e">>}

RadioGroupOf(r) == IF r = "r3" THEN "g2" ELSE "g1"

\* Markups of a page with the group "g1" the caller means, holding the option
\* "r1" the caller means and another option "r2", and a second group "g2"
\* whose option "r3" may carry the same text.  Labels in document order: the
\* group label, the two option labels, the label of r3.
RadioLabels(gt, ot, otherFirst, assoc, g2) ==
  LET l1 == Label("l1", OptionText, IF assoc THEN "r1" ELSE "", "none", "none", "r1", TRUE)
      l2 == Label("l2", ot, IF assoc THEN "r2" ELSE "", "none", "none", "r2", TRUE)
  IN <<Label("l0", gt, "", "none", "none", "none", TRUE)>>
     \o (IF otherFirst THEN <<l2, l1>> ELSE <<l1, l2>>)
     \o (IF g2 THEN <<Label("l3", OptionText, "r3", "none", "none", "r3", TRUE)>> ELSE <<>>)

RadioLayouts ==
  { l \in
  { [kind |-> "radio", designated |-> "r1", groupText |-> gt,
     labels |-> RadioLabels(gt, ot, otherFirst, assoc, g2),
     roleGroup |-> rg,
     bqLabels |-> IF bq THEN <<"l0">> \o (IF otherFirst THEN <<"l2", "l1">> ELSE <<"l1", "l2">>)
                  ELSE <<>>,
     aria |-> [i \in {"r1", "r2", "r3"} |-> <<>>],
     actionable |-> [i \in {"r1", "r2", "r3"} |-> i # "r1" \/ act],
     shown |-> [i \in {"r1", "r2", "r3"} |-> i # "r1" \/ sh],
     labelsClickable |-> TRUE] :
      gt \in {GroupTextPlain, GroupTextWithOption}, ot \in OtherOptionTexts,
      otherFirst \in BOOLEAN, assoc \in BOOLEAN, g2 \in BOOLEAN,
      rg \in BOOLEAN, bq \in BOOLEAN, act \in BOOLEAN, sh \in BOOLEAN } :
    l.actionable["r1"] => l.shown["r1"] }

CheckedRadios == { radios[g] : g \in DOMAIN radios }

\* Checking an option unchecks the others of its group.
CheckRadio(r) == [radios EXCEPT ![RadioGroupOf(r)] = r]

\* A click on a label checks the radio the label acts on.
ClickRadioLabel(label) ==
  IF label.target \in {"r1", "r2", "r3"} THEN CheckRadio(label.target) ELSE radios

RdCheck(s, matches, step) ==
  IF CanCheck(matches, CheckedRadios)
  THEN /\ radios' = CheckRadio(CHOOSE r \in matches : TRUE)
       /\ trace' = Append(trace, Event(s, "check", CHOOSE r \in matches : TRUE))
       /\ Complete
  ELSE /\ radios' = radios
       /\ trace' = Append(trace, IF Cardinality(matches) = 1
                                 THEN Event(s, "checkFailed", CHOOSE r \in matches : TRUE)
                                 ELSE Event(s, "miss", "none"))
       /\ Raise(step, {call.value})

\* getByRole('radiogroup', { name: groupLabel }).getByLabel(optionText,
\* { exact: true }): the options of the named group with that exact label.
RdAcc ==
  /\ pc = "rd_acc"
  /\ RdCheck("acc",
             IF layout.roleGroup /\ HasText(layout.groupText, call.label)
             THEN GetByLabel({"r1", "r2"}, call.value) ELSE {},
             "check")
  /\ UNCHANGED <<call, before, flowvars, layout, inputs, boxes, sel, btn, ncalls>>

RdBqProbe ==
  /\ pc = "rd_bq_probe"
  /\ IF WrapperLabels(call.label) # <<>>
     THEN /\ Goto("rd_bq_click", "none")
          /\ trace' = Append(trace, Event("bq", "resolved", "none"))
     ELSE /\ Raise("waitFor", {call.label})
          /\ trace' = Append(trace, Event("bq", "miss", "none"))
  /\ UNCHANGED <<call, before, flowvars, layout, domvars, ncalls>>

\* container.locator('label', { hasText: optionText }).first().click()
RdBqClick ==
  /\ pc = "rd_bq_click"
  /\ LET ls == WrapperLabels(call.value) IN
     IF ls # <<>> /\ layout.labelsClickable
     THEN /\ radios' = ClickRadioLabel(Head(ls))
          /\ trace' = Append(trace, Event("bq", "click", Head(ls).id))
          /\ Complete
     ELSE /\ radios' = radios
          /\ trace' = Append(trace, Event("bq", "clickFailed", "none"))
          /\ Raise("click", {call.label, call.value})
  /\ UNCHANGED <<call, before, flowvars, layout, inputs, boxes, sel, btn, ncalls>>

\* expect(locator).toBeVisible(): the locator resolves to one visible option.
VisibleRadio(matches) ==
  /\ Cardinality(matches) = 1
  /\ \A r \in matches : layout.shown[r]

\* page.getByLabel(optionText, { exact: true }) over the whole page, and
\* expect(fallback).toBeVisible().
RdRawProbe ==
  /\ pc = "rd_raw_probe"
  /\ LET matches == GetByLabel({"r1", "r2", "r3"}, call.value) IN
     IF VisibleRadio(matches)
     THEN /\ Goto("rd_raw_check", CHOOSE r \in matches : TRUE)
          /\ trace' = Append(trace, Event("raw", "resolved", CHOOSE r \in matches : TRUE))
     ELSE /\ Raise("toBeVisible", {call.value})
          /\ trace' = Append(trace, Event("raw", "miss", "none"))
  /\ UNCHANGED <<call, before, flowvars, layout, domvars, ncalls>>

RdRawCheck ==
  /\ pc = "rd_raw_check"
  /\ RdCheck("raw", {el}, "check")
  /\ UNCHANGED <<call, before, flowvars, layout, inputs, boxes, sel, btn, ncalls>>

-----------------------------------------------------------------------------
(* The select control and its option list.                                 *)

SelOption == <<"S", "K">>
\* An option whose text contains SelOption (as "Slovakia (EEA)" contains
\* "Slovakia").
SelOptionLong == <<"S", "K", "2">>

Option(text, role, mat) == [text |-> text, role |-> role, mat |-> mat]

\* Option lists, in document order: each option has its text, whether it is
\* exposed with role option under that accessible name, and whether it is a
\* mat-option element.
OptionLists ==
  { <<Option(SelOption, TRUE, TRUE)>>,
    <<Option(SelOptionLong, TRUE, TRUE), Option(SelOption, TRUE, TRUE)>>,
    <<Option(SelOptionLong, FALSE, TRUE), Option(SelOption, FALSE, TRUE)>>,
    <<Option(SelOption, FALSE, FALSE)>>,
    <<Option(SelOptionLong, TRUE, TRUE)>>,
    <<>> }

SelectLabelings ==
  { <<Label("l1", LabelText, "s1", "none", "none", "s1", TRUE)>>,
    <<Label("l1", LabelTextStar, "s1", "none", "none", "s1", TRUE)>>,
    <<Label("l1", LabelText, "", "none", "none", "s1", TRUE)>>,
    <<Label("l1", LabelText, "", "none", "none", "none", TRUE)>>,
    <<>> }

\* Markups of a page with the select control "s1": its label, whether a
\* bq-select wrapper holds label and trigger, its aria-label, whether the
\* open option list lays a backdrop over the page that takes the clicks,
\* whether the control can be clicked, its options, and whether an element
\* showing exactly the option text stands in the page before the option list.
SelectLayouts ==
  { [kind |-> "select", designated |-> "s1", labels |-> ls,
     bqLabels |-> IF bq THEN [k \in 1..Len(ls) |-> ls[k].id] ELSE <<>>,
     aria |-> [i \in {"s1"} |-> ar],
     backdrop |-> bd, triggerClickable |-> tc, options |-> os, strayText |-> st] :
      ls \in SelectLabelings, bq \in BOOLEAN, ar \in {<<>>, LabelText},
      bd \in BOOLEAN, tc \in BOOLEAN, os \in OptionLists, st \in BOOLEAN }

\* Whether a click on the control (or on something else of the page under
\* the option list) goes through within its timeout.
PageClickable == ~(sel.open /\ layout.backdrop)

\* A click on the control opens its option list, or closes the open one.
ToggleSelect == [sel EXCEPT !.open = ~@]

\* A click on an option selects it and closes the list.
ChooseOption(o) == [open |-> FALSE, selected |-> o.text]

\* page.getByRole('option', { name: optionText, exact: true })
RoleOptions(text) ==
  SelectSeq(IF sel.open THEN layout.options ELSE <<>>,
            LAMBDA o : o.role /\ ExactText(o.text, text))

\* page.locator('mat-option', { hasText: optionText }).first()
MatOptions(text) ==
  SelectSeq(IF sel.open THEN layout.options ELSE <<>>,
            LAMBDA o : o.mat /\ HasText(o.text, text))

\* page.locator('text="optionText"').first(): the elements of the page whose
\* text is exactly the option text, in document order: a stray element, the
\* control showing its selected value, the options of the open list.
TextMatches(text) ==
  (IF layout.strayText THEN <<"stray">> ELSE <<>>)
  \o (IF sel.selected = text THEN <<"trigger">> ELSE <<>>)
  \o (IF \E k \in 1..Len(layout.options) :
            sel.open /\ ExactText(layout.options[k].text, text)
      THEN <<"option">> ELSE <<>>)

SelAccClick ==
  /\ pc = "sel_acc_click"
  /\ LET matches == GetByLabel({"s1"}, call.label) IN
     IF matches # {} /\ layout.triggerClickable /\ PageClickable
     THEN /\ sel' = ToggleSelect
          /\ trace' = Append(trace, Event("acc", "click", "s1"))
          /\ Goto("so_role", "s1")
     ELSE /\ sel' = sel
          /\ trace' = Append(trace, IF matches # {}
                                    THEN Event("acc", "clickFailed", "s1")
                                    ELSE Event("acc", "miss", "none"))
          /\ Raise("click", {call.label})
  /\ UNCHANGED <<call, before, flowvars, layout, inputs, boxes, radios, btn, ncalls>>

SelBqProbe ==
  /\ pc = "sel_bq_probe"
  /\ IF WrapperLabels(call.label) # <<>>
     THEN /\ Goto("sel_bq_click", "s1")
          /\ trace' = Append(trace, Event("bq", "resolved", "s1"))
     ELSE /\ Raise("waitFor", {call.label})
          /\ trace' = Append(trace, Event("bq", "miss", "none"))
  /\ UNCHANGED <<call, before, flowvars, layout, domvars, ncalls>>

SelBqClick ==
  /\ pc = "sel_bq_click"
  /\ IF layout.triggerClickable /\ PageClickable
     THEN /\ sel' = ToggleSelect
          /\ trace' = Append(trace, Event("bq", "click", "s1"))
          /\ Goto("so_role", "s1")
     ELSE /\ sel' = sel
          /\ trace' = Append(trace, Event("bq", "clickFailed", "s1"))
          /\ Raise("click", {call.label})
  /\ UNCHANGED <<call, before, flowvars, layout, inputs, boxes, radios, btn, ncalls>>

SelRawLabel ==
  /\ pc = "sel_raw_label"
  /\ LET label == FirstLabelHasText(call.label) IN
     IF label.visible
     THEN /\ Goto("sel_raw_click", label.id)
          /\ trace' = Append(trace, Event("raw", "label", label.id))
     ELSE /\ Raise("waitFor", {call.label})
          /\ trace' = Append(trace, Event("raw", "miss", "none"))
  /\ UNCHANGED <<call, before, flowvars, layout, domvars, ncalls>>

\* #for is clicked when the label has a for attribute, else the label.
SelRawClick ==
  /\ pc = "sel_raw_click"
  /\ LET label == LabelById(el)
         hit == IF label.for # "" THEN label.for ELSE label.target
     IN IF PageClickable /\ (label.for # "" => label.for = "s1" /\ layout.triggerClickable)
        THEN /\ sel' = IF hit = "s1" THEN ToggleSelect ELSE sel
             /\ trace' = Append(trace, Event("raw", "click", IF label.for # "" THEN "s1" ELSE el))
             /\ Goto("so_role", el)
        ELSE /\ sel' = sel
             /\ trace' = Append(trace, Event("raw", "clickFailed", el))
             /\ Raise("click", IF label.for # "" THEN {<<"#">> \o <<label.for>>} ELSE {call.label})
  /\ UNCHANGED <<call, before, flowvars, layout, inputs, boxes, radios, btn, ncalls>>

(* selectMatOption: each of its first two option strategies swallows its   *)
(* own failure; the third throws into the strategy that called it.         *)

OptionClick(os, name, missPc) ==
  IF os # <<>>
  THEN /\ sel' = ChooseOption(Head(os))
       /\ trace' = Append(trace, Event(strat, name, "option"))
       /\ Complete
  ELSE /\ sel' = sel
       /\ trace' = Append(trace, Event(strat, "optionMiss", name))
       /\ Goto(missPc, el)

SoRole ==
  /\ pc = "so_role"
  /\ OptionClick(IF Len(RoleOptions(call.value)) = 1 THEN RoleOptions(call.value) ELSE <<>>,
                 "roleOption", "so_mat")
  /\ UNCHANGED <<call, before, flowvars, layout, inputs, boxes, radios, btn, ncalls>>

SoMat ==
  /\ pc = "so_mat"
  /\ OptionClick(MatOptions(call.value), "matOption", "so_text")
  /\ UNCHANGED <<call, before, flowvars, layout, inputs, boxes, radios, btn, ncalls>>

SoText ==
  /\ pc = "so_text"
  /\ LET ms == TextMatches(call.value) IN
     IF ms # <<>> /\ (Head(ms) = "option" \/ PageClickable)
     THEN /\ sel' = CASE Head(ms) = "option"  -> [open |-> FALSE, selected |-> call.value]
                      [] Head(ms) = "trigger" -> ToggleSelect
                      [] OTHER                -> sel
          /\ trace' = Append(trace, Event(strat, "textClick", Head(ms)))
          /\ Complete
     ELSE /\ sel' = sel
          /\ trace' = Append(trace, Event(strat, "optionMiss", "text"))
          /\ Raise(IF ms = <<>> THEN "waitFor" ELSE "click", {call.value})
  /\ UNCHANGED <<call, before, flowvars, layout, inputs, boxes, radios, btn, ncalls>>

-----------------------------------------------------------------------------
(* clickProceed and the proceed button.                                    *)

ButtonText == <<"N", "e", "x", "t">>

\* Markups of a page with the proceed button: whether a button of that name
\* is visible, whether something over it takes the pointer clicks, whether
\* it is disabled natively (el.click() on it does nothing) or through
\* aria-disabled (el.click() still dispatches), and whether the network
\* goes idle after the click.
ProceedLayouts ==
  { [kind |-> "proceed", designated |-> "button", labels |-> <<>>,
     visible |-> v, intercepted |-> i, native |-> n, settles |-> st] :
      v \in BOOLEAN, i \in BOOLEAN, n \in BOOLEAN, st \in BOOLEAN }

\* The click reaches the button: counted, and remembered when the button
\* was disabled at that moment.
Deliver == [btn EXCEPT !.clicks = @ + 1,
                       !.clickedDisabled = @ \/ ~btn.enabled]

\* The page finishes its validation and enables the button.  Nothing edits
\* the form while clickProceed runs, so the button is not disabled again
\* during the call.
ButtonEnables ==
  /\ call.op = "clickProceed"
  /\ pc # "done"
  /\ ~btn.enabled
  /\ btn' = [btn EXCEPT !.enabled = TRUE]
  /\ trace' = Append(trace, Event("page", "enabled", "button"))
  /\ UNCHANGED <<call, before, flowvars, pc, strat, el, layout, inputs, boxes, radios, sel,
                 completed, outcome, ncalls>>

\* expect(button).toBeVisible({ timeout: 10000 })
PrVisible ==
  /\ pc = "pr_visible"
  /\ IF layout.visible
     THEN /\ Goto("pr_enabled", "button")
          /\ trace' = Append(trace, Event("main", "resolved", "button"))
     ELSE /\ Raise("toBeVisible", {call.label})
          /\ trace' = Append(trace, Event("main", "miss", "none"))
  /\ UNCHANGED <<call, before, flowvars, layout, domvars, ncalls>>

\* A gate that lets a disabled button pass.
EnabledGateOpen(enabled) == TRUE

\* What expect(button).toBeEnabled() lets pass.
EnabledGate(enabled) == enabled

\* expect(button).toBeEnabled({ timeout: 10000 }): passes once the button is
\* enabled, throws when the bound elapses with the button still disabled.
PrEnabled ==
  /\ pc = "pr_enabled"
  /\ IF EnabledGate(btn.enabled)
     THEN /\ Goto("pr_scroll", el)
          /\ trace' = Append(trace, Event("main", "enabledSeen", "button"))
     ELSE /\ Raise("toBeEnabled", {call.label})
          /\ trace' = Append(trace, Event("main", "stillDisabled", "button"))
  /\ UNCHANGED <<call, before, flowvars, layout, domvars, ncalls>>

PrScroll ==
  /\ pc = "pr_scroll"
  /\ Goto("pr_click", el)
  /\ UNCHANGED <<call, before, flowvars, layout, domvars, trace, ncalls>>

\* A click whose success is also followed by the DOM click.
PrClickThenDom ==
  /\ pc = "pr_click"
  /\ IF btn.enabled /\ ~layout.intercepted
     THEN /\ btn' = Deliver
          /\ trace' = Append(trace, Event("main", "click", "button"))
     ELSE /\ btn' = btn
          /\ trace' = Append(trace, Event("main", "clickFailed", "button"))
  /\ Goto("pr_domclick", el)
  /\ UNCHANGED <<call, before, flowvars, layout, inputs, boxes, radios, sel, ncalls>>

\* button.click({ timeout: 10000 }) clicks an enabled button that receives
\* the pointer events; otherwise it times out and the catch takes over.  The
\* timeout also runs while click() waits for the navigation the click has
\* started: it can elapse after the click was delivered, and click() throws
\* then as well.
PrClick ==
  /\ pc = "pr_click"
  /\ IF btn.enabled /\ ~layout.intercepted
     THEN /\ btn' = Deliver
          /\ \E late \in BOOLEAN :
               IF late
               THEN /\ trace' = Append(trace, Event("main", "clickThrewLate", "button"))
                    /\ Goto("pr_domclick", el)
               ELSE /\ trace' = Append(trace, Event("main", "click", "button"))
                    /\ Goto("pr_wait", el)
     ELSE /\ btn' = btn
          /\ trace' = Append(trace, Event("main", "clickFailed", "button"))
          /\ Goto("pr_domclick", el)
  /\ UNCHANGED <<call, before, flowvars, layout, inputs, boxes, radios, sel, ncalls>>

\* A DOM click that is followed by return.
PrDomClickReturns ==
  /\ pc = "pr_domclick"
  /\ btn' = Deliver
  /\ trace' = Append(trace, Event("main", "domClick", "button"))
  /\ Complete
  /\ UNCHANGED <<call, before, flowvars, layout, inputs, boxes, radios, sel, ncalls>>

\* button.evaluate(el => el.click()), then line 161.
PrDomClick ==
  /\ pc = "pr_domclick"
  /\ IF btn.enabled \/ ~layout.native
     THEN /\ btn' = Deliver
          /\ trace' = Append(trace, Event("main", "domClick", "button"))
     ELSE /\ btn' = btn
          /\ trace' = Append(trace, Event("main", "domClickIgnored", "button"))
  /\ Goto("pr_wait", el)
  /\ UNCHANGED <<call, before, flowvars, layout, inputs, boxes, radios, sel, ncalls>>

\* waitForStableLoad(page): network idle, then the fixed settle delay.
PrWaitStable ==
  /\ pc = "pr_wait"
  /\ IF layout.settles
     THEN /\ Complete
          /\ trace' = Append(trace, Event("main", "stable", "page"))
     ELSE /\ Raise("waitForLoadState", {})
          /\ trace' = Append(trace, Event("main", "notStable", "page"))
  /\ UNCHANGED <<call, before, flowvars, layout, domvars, ncalls>>

-----------------------------------------------------------------------------
(* A call starts on the page as the previous call left it.                 *)

\* What a call leaves behind when it checked its effect on the page: the
\* value check of setInputValue, check() (which throws unless the control is
\* checked afterwards), the stable wait of clickProceed.  A click on a label
\* or on an option is followed by return and by nothing else.
VerifyingEvents == {"verified", "check", "stable"}

\* The call returned and the last thing it did to the page (the Tab press
\* apart) was checked against the page.
ActionVerified ==
  /\ outcome = Returned
  /\ \E k \in 1..Len(trace) :
       /\ trace[k].a \in VerifyingEvents
       /\ \A j \in (k + 1)..Len(trace) : trace[j].a \in {"tab", "tabFailed"}

NoBefore == [inputs |-> <<>>, boxes |-> <<>>, radios |-> <<>>,
             sel |-> [open |-> FALSE, selected |-> <<>>],
             prev |-> "none", prevVerified |-> FALSE, prevValue |-> <<>>]

NoRun == [pos |-> 0]
NoLookup == [pos |-> "none"]

Invoke(op, label, value, entry) ==
  /\ pc \in {"idle", "done"}
  /\ ncalls < MaxCalls
  /\ call' = [op |-> op, label |-> label, value |-> value]
  /\ pc' = entry
  /\ strat' = Head(Chain(op))
  /\ el' = "none"
  /\ trace' = <<>>
  /\ completed' = <<>>
  /\ outcome' = Running
  /\ ncalls' = ncalls + 1
  /\ before' = [inputs |-> inputs, boxes |-> boxes, radios |-> radios, sel |-> sel,
                prev |-> IF ncalls = 0 THEN "none" ELSE outcome.status,
                prevVerified |-> ActionVerified, prevValue |-> call.value]
  /\ UNCHANGED <<layout, domvars, flowvars>>

InvokeCheckbox ==
  /\ layout.kind = "checkbox"
  /\ Invoke("setCheckboxByLabel", LabelText, <<>>, "cb_acc")

InvokeSelect ==
  /\ layout.kind = "select"
  /\ Invoke("selectMatOptionByLabel", LabelText, SelOption, "sel_acc_click")

InvokeProceed ==
  /\ layout.kind = "proceed"
  /\ Invoke("clickProceed", ButtonText, <<>>, "pr_visible")

InvokeRadio ==
  /\ layout.kind = "radio"
  /\ Invoke("setRadioByLabel", layout.groupText, OptionText, "rd_acc")

InvokeFill ==
  /\ layout.kind = "fill"
  /\ \E v \in FillValues : Invoke("fillTextByLabel", LabelText, v, "fill_acc_probe")

NoSelect == [open |-> FALSE, selected |-> <<>>]
NoButton == [enabled |-> FALSE, clicks |-> 0, clickedDisabled |-> FALSE]

NoCall == [op |-> "none", label |-> <<>>, value |-> <<>>]

InitFill ==
  /\ layout \in FillLayouts
  /\ \E v \in InitialValues, m \in FieldModes, vis \in BOOLEAN, clk \in BOOLEAN :
       inputs = [i \in {"i1", "i2"} |->
                   IF i = "i1"
                   THEN [value |-> v, mode |-> m, visible |-> vis, clickable |-> clk]
                   ELSE [value |-> <<>>, mode |-> "plain", visible |-> TRUE,
                         clickable |-> TRUE]]
  /\ boxes = <<>>
  /\ radios = <<>>
  /\ sel = NoSelect
  /\ btn = NoButton

InitCheckbox ==
  /\ layout \in CheckboxLayouts
  /\ inputs = <<>>
  /\ radios = <<>>
  /\ sel = NoSelect
  /\ btn = NoButton
  /\ \E b \in BOOLEAN : boxes = [i \in {"c1", "c2"} |-> i = "c1" /\ b]

InitSelect ==
  /\ layout \in SelectLayouts
  /\ inputs = <<>>
  /\ boxes = <<>>
  /\ radios = <<>>
  /\ btn = NoButton
  /\ \E t \in {<<>>, SelOptionLong} : sel = [open |-> FALSE, selected |-> t]

InitProceed ==
  /\ layout \in ProceedLayouts
  /\ inputs = <<>>
  /\ boxes = <<>>
  /\ radios = <<>>
  /\ sel = NoSelect
  /\ \E e \in BOOLEAN : btn = [enabled |-> e, clicks |-> 0, clickedDisabled |-> FALSE]

InitRadio ==
  /\ layout \in RadioLayouts
  /\ inputs = <<>>
  /\ boxes = <<>>
  /\ sel = NoSelect
  /\ btn = NoButton
  /\ \E r \in {"none", "r1", "r2"} : radios = [g \in {"g1", "g2"} |-> IF g = "g1" THEN r ELSE "none"]

-----------------------------------------------------------------------------
(* The notification flow (src/tests/e2e-notification-flow.spec.ts): the    *)
(* awaited calls of the test body in source order.  A step is a direct     *)
(* Playwright interaction with the page ("page"), a read-only query of the *)
(* page ("look"), waitForStableLoad ("wait"), waitAfterOpenForm ("ready"), *)
(* a semantic operation ("op"), requireEnv ("env", evaluated before the    *)
(* call it is an argument of), the date formatting ("pure"), the postal    *)
(* lookup ("pdok") or the throw statement of line 161 ("throw").           *)

S(line, kind, name) == [line |-> line, kind |-> kind, name |-> name]

\* Section 1: login and opening of the form (lines 21-50).
FlowLogin ==
  << S(21, "page", "goto"), S(22, "wait", "stable"),
     S(26, "look", "cookieModal.isVisible"),
     S(28, "page", "click"), S(29, "wait", "stable"),
     S(34, "look", "expect.toBeVisible"), S(35, "page", "selectOption"),
     S(38, "page", "click"), S(39, "wait", "stable"),
     S(43, "env", "LOGIN_EMAIL"), S(43, "page", "fill"),
     S(44, "env", "LOGIN_PASSWORD"), S(44, "page", "fill"),
     S(45, "page", "click"), S(46, "wait", "stable"),
     S(49, "page", "click"), S(50, "ready", "waitAfterOpenForm") >>

\* Sections 2 and 3: basics and notifier (lines 54-91).
FlowBasics ==
  << S(54, "op", "setRadioByLabel"), S(57, "op", "setRadioByLabel"),
     S(60, "op", "selectMatOptionByLabel"), S(63, "op", "selectMatOptionByLabel"),
     S(66, "op", "selectMatOptionByLabel"), S(69, "op", "selectMatOptionByLabel"),
     S(72, "pure", "formatDateToDutchLocale"), S(73, "pure", "formatDateToDutchLocale"),
     S(75, "op", "fillTextByLabel"), S(76, "op", "fillTextByLabel"),
     S(79, "op", "clickProceed"),
     S(82, "env", "NOTIFIER_FIRST_NAME"), S(82, "op", "fillTextByLabel"),
     S(83, "env", "NOTIFIER_LAST_NAME"), S(83, "op", "fillTextByLabel"),
     S(86, "env", "NOTIFIER_PHONE"), S(86, "op", "fillTextByLabel"),
     S(88, "env", "NOTIFIER_EMAIL"), S(88, "op", "fillTextByLabel"),
     S(91, "op", "clickProceed") >>

\* Section 4: notifier company (lines 96-130).
FlowCompany ==
  << S(96, "op", "selectMatOptionByLabel"),
     S(99, "op", "setRadioByLabel"), S(102, "op", "setRadioByLabel"),
     S(105, "env", "NOTIFIER_CHAMBER_NUMBER"), S(105, "op", "fillTextByLabel"),
     S(108, "env", "NOTIFIER_FIRST_NAME"), S(108, "env", "NOTIFIER_LAST_NAME"),
     S(109, "op", "fillTextByLabel"),
     S(112, "op", "setRadioByLabel"),
     S(115, "env", "NOTIFIER_STREET"), S(115, "op", "fillTextByLabel"),
     S(116, "env", "NOTIFIER_HOUSE_NUMBER"), S(116, "op", "fillTextByLabel"),
     S(117, "env", "NOTIFIER_CITY"), S(117, "op", "fillTextByLabel"),
     S(118, "env", "NOTIFIER_POSTCODE"), S(118, "op", "fillTextByLabel"),
     S(121, "op", "setRadioByLabel"),
     S(124, "env", "NOTIFIER_DATE_OF_BIRTH"), S(124, "op", "fillTextByLabel"),
     S(127, "op", "selectMatOptionByLabel"),
     S(130, "op", "clickProceed") >>

\* Section 5, first part: service recipient and trade-register search with
\* its try block (lines 155-163) and catch block (lines 164-207).
FlowRegister ==
  << S(134, "op", "setRadioByLabel"), S(137, "op", "selectMatOptionByLabel"),
     S(143, "env", "SERVICE_RECIPIENT_KVK_NUMBER"), S(140, "op", "fillTextByLabel"),
     S(148, "env", "SERVICE_RECIPIENT_BRANCH_NUMBER"), S(145, "op", "fillTextByLabel"),
     S(151, "page", "click"), S(152, "wait", "stable"),
     S(157, "look", "selectButtons.count"),
     S(159, "page", "click"),
     S(161, "throw", "No Select button found"),
     S(163, "wait", "stable"),
     S(169, "page", "click"),
     S(172, "look", "tooltipButtons.count"),
     S(177, "look", "tooltip.textContent"),
     S(179, "page", "click"),
     S(183, "wait", "stable"),
     S(186, "page", "click"), S(187, "wait", "stable"),
     S(190, "op", "setRadioByLabel"), S(195, "wait", "stable"),
     S(200, "env", "SERVICE_RECIPIENT_KVK_NUMBER"), S(197, "op", "fillTextByLabel"),
     S(205, "env", "SERVICE_RECIPIENT_COMPANY_NAME"), S(202, "op", "fillTextByLabel") >>

\* Section 5, second part (lines 210-247).
FlowRecipient ==
  << S(210, "op", "setRadioByLabel"),
     S(218, "env", "SERVICE_RECIPIENT_VAT_NUMBER"), S(215, "op", "fillTextByLabel"),
     S(222, "op", "setRadioByLabel"),
     S(228, "env", "SERVICE_RECIPIENT_POSTCODE"), S(225, "op", "fillTextByLabel"),
     S(230, "env", "SERVICE_RECIPIENT_HOUSE_NUMBER"), S(230, "op", "fillTextByLabel"),
     S(236, "env", "SERVICE_RECIPIENT_CONTACT_FIRST_NAME"), S(233, "op", "fillTextByLabel"),
     S(241, "env", "SERVICE_RECIPIENT_CONTACT_LAST_NAME"), S(238, "op", "fillTextByLabel"),
     S(243, "env", "SERVICE_RECIPIENT_PHONE"), S(243, "op", "fillTextByLabel"),
     S(244, "env", "SERVICE_RECIPIENT_EMAIL"), S(244, "op", "fillTextByLabel"),
     S(247, "op", "clickProceed") >>

\* Sections 6 and 7: work location, summary, submission (lines 251-334).
FlowLocation ==
  << S(251, "op", "setRadioByLabel"), S(258, "op", "setRadioByLabel"),
     S(264, "pdok", "pdokLookupPostalCode"),
     S(271, "op", "fillTextByLabel"), S(276, "op", "fillTextByLabel"),
     S(282, "env", "SERVICE_RECIPIENT_PHONE"), S(279, "op", "fillTextByLabel"),
     S(287, "env", "SERVICE_RECIPIENT_EMAIL"), S(284, "op", "fillTextByLabel"),
     S(291, "op", "setRadioByLabel"), S(296, "op", "selectMatOptionByLabel"),
     S(308, "page", "click"),
     S(316, "op", "setCheckboxByLabel"),
     S(320, "page", "click"), S(321, "wait", "stable"),
     S(325, "look", "expect.toBeVisible"), S(326, "page", "click"),
     S(329, "look", "expect.toBeVisible"),
     S(331, "page", "click"),
     S(333, "page", "click"), S(334, "wait", "stable") >>

Flow == FlowLogin \o FlowBasics \o FlowCompany \o FlowRegister \o FlowRecipient
        \o FlowLocation

\* The first step of a source line.
PosOf(line) == CHOOSE k \in 1..Len(Flow) :
                 /\ Flow[k].line = line
                 /\ \A j \in 1..(k - 1) : Flow[j].line # line

EnvNames == { Flow[k].name : k \in { j \in 1..Len(Flow) : Flow[j].kind = "env" } }

\* The catch clause that takes a throw of a source line: the first step of
\* the catch block, or 0 when the line is in no try block.  The try blocks of
\* the test body are lines 155-164 and 328-330.
HandlerWide(line) ==
  IF line \in 54..207 THEN 210 ELSE IF line = 329 THEN 331 ELSE 0

Handler(line) ==
  IF line \in 156..163 THEN 169 ELSE IF line = 329 THEN 331 ELSE 0

\* Calls whose rejection is dropped by .catch(() => ...): lines 26 and 169.
Swallows(line) == line \in {26, 169}

\* Where a query that answers no leads when the code branches on it: the if
\* of line 26, the if/else of line 158, the loop of lines 173-182.
Alt(line) ==
  CASE line = 26  -> 34
    [] line = 157 -> 161
    [] line = 172 -> 183
    [] line = 177 -> 183
    [] OTHER      -> 0

\* A try block whose end runs on into its catch block.
JumpIntoCatch(line) ==
  CASE line = 159 -> 163
    [] line = 329 -> 333
    [] OTHER      -> 0

\* Where a step that went through leads when that is not the next step: the
\* else branch of line 160 and the catch blocks are skipped.
Jump(line) ==
  CASE line = 159 -> 163
    [] line = 163 -> 210
    [] line = 329 -> 333
    [] OTHER      -> 0

\* process.env[name] as requireEnv sees it.
EnvStates == {"absent", "empty", "blank", "set"}

\* requireEnv: if (!value || !value.trim()) throw
RequireEnvThrows(v) == v \in {"absent", "empty", "blank"}

\* An expectation on the heading that does not look.
HeadingCheckSkipped(visible) == TRUE

\* expect(heading).toBeVisible({ timeout: 20000 })
HeadingCheck(visible) == visible

Here == Flow[run.pos]

FlowAt(kind) ==
  /\ run.pos > 0
  /\ run.status = "running"
  /\ Here.kind = kind

\* The step at run.pos is done: the run goes on at position k.
Continue(k) ==
  [run EXCEPT !.pos = k,
              !.log = Append(@, run.pos),
              !.status = IF k > Len(Flow) THEN "passed" ELSE "running"]

\* The step at run.pos went through.
Passed ==
  Continue(IF Jump(Here.line) # 0 THEN PosOf(Jump(Here.line)) ELSE run.pos + 1)

\* The step at run.pos threw: the enclosing catch clause takes over, or the
\* test ends as failed there.
Failed(err) ==
  IF Handler(Here.line) # 0
  THEN [Continue(PosOf(Handler(Here.line))) EXCEPT !.threw = @ \cup {run.pos}]
  ELSE [run EXCEPT !.status = "failed", !.failedAt = run.pos,
                   !.error = err, !.log = Append(@, run.pos),
                   !.threw = @ \cup {run.pos}]

pagevars == <<call, pc, strat, el, layout, inputs, boxes, radios, sel, btn,
              trace, completed, outcome, ncalls, before>>

\* requireEnv(name), evaluated as an argument before the call is made.
FlowEnv ==
  /\ FlowAt("env")
  /\ run' = IF RequireEnvThrows(IF Here.name = run.bad THEN run.badState ELSE "set")
            THEN [run EXCEPT !.status = "failed", !.failedAt = run.pos,
                             !.error = "ConfigMissing"]
            ELSE [run EXCEPT !.pos = @ + 1]
  /\ UNCHANGED <<pagevars, lookup>>

\* page.goto, click, fill, selectOption: done, or timed out.
FlowPage ==
  /\ FlowAt("page")
  /\ \E ok \in BOOLEAN :
       run' = IF ok \/ Swallows(Here.line) THEN Passed ELSE Failed("PlaywrightError")
  /\ UNCHANGED <<pagevars, lookup>>

\* await waitForStableLoad(page)
FlowWait ==
  /\ FlowAt("wait")
  /\ \E ok \in BOOLEAN : run' = IF ok THEN Passed ELSE Failed("Timeout")
  /\ UNCHANGED <<pagevars, lookup>>

\* isVisible, count, textContent, expect(...).toBeVisible(): the answer is
\* yes, or no (which an expectation throws and a condition branches on), or
\* the query itself fails.
FlowLook ==
  /\ FlowAt("look")
  /\ \E r \in {"yes", "no", "error"} :
       run' = CASE r = "yes" -> Passed
                [] r = "no" /\ Alt(Here.line) # 0 -> Continue(PosOf(Alt(Here.line)))
                [] r = "error" /\ Swallows(Here.line) -> Continue(PosOf(Alt(Here.line)))
                [] OTHER -> Failed("PlaywrightError")
  /\ UNCHANGED <<pagevars, lookup>>

\* throw new Error('No "Select" button found')
FlowThrow ==
  /\ FlowAt("throw")
  /\ run' = Failed("Error")
  /\ UNCHANGED <<pagevars, lookup>>

\* formatDateToDutchLocale: no page, no environment.
FlowPure ==
  /\ FlowAt("pure")
  /\ run' = [run EXCEPT !.pos = @ + 1]
  /\ UNCHANGED <<pagevars, lookup>>

\* await waitAfterOpenForm(page): the stable wait, then the heading.
FlowReady ==
  /\ FlowAt("ready")
  /\ \E stable \in BOOLEAN :
       run' = IF stable /\ HeadingCheck(run.heading)
              THEN [Passed EXCEPT !.ready = TRUE]
              ELSE Failed("Timeout")
  /\ UNCHANGED <<pagevars, lookup>>

\* The declaration checkbox as an operation whose failure the test body
\* drops.
FlowOpDropped ==
  /\ FlowAt("op")
  /\ \E ok \in BOOLEAN :
       run' = IF ok THEN Passed
              ELSE IF Here.name = "setCheckboxByLabel"
              THEN [Passed EXCEPT !.opFailed = run.pos, !.threw = @ \cup {run.pos}]
              ELSE [Failed("OperationFailed") EXCEPT !.opFailed = run.pos]
  /\ UNCHANGED <<pagevars, lookup>>

\* An awaited semantic operation: it returns, or it throws one of its
\* failures into the test body.
FlowOp ==
  /\ FlowAt("op")
  /\ \E ok \in BOOLEAN :
       run' = IF ok THEN Passed
              ELSE [Failed("OperationFailed") EXCEPT !.opFailed = run.pos]
  /\ UNCHANGED <<pagevars, lookup>>

\* await pdokLookupPostalCode(...): a postal code, or its error.
FlowLookupCall ==
  /\ FlowAt("pdok")
  /\ \E ok \in BOOLEAN : run' = IF ok THEN Passed ELSE Failed("ExternalLookupFailed")
  /\ UNCHANGED <<pagevars, lookup>>

NoLayout(kind) == [kind |-> kind, designated |-> "none", labels |-> <<>>]

InitFlow ==
  /\ layout = NoLayout("flow")
  /\ inputs = <<>>
  /\ boxes = <<>>
  /\ radios = <<>>
  /\ sel = NoSelect
  /\ btn = NoButton
  /\ lookup = NoLookup
  /\ \E h \in BOOLEAN, b \in EnvNames \cup {"none"}, bs \in EnvStates \ {"set"} :
       run = [pos |-> 1, status |-> "running", failedAt |-> 0, error |-> "none",
              log |-> <<>>, threw |-> {}, opFailed |-> 0, ready |-> FALSE, heading |-> h,
              bad |-> b, badState |-> IF b = "none" THEN "set" ELSE bs]

-----------------------------------------------------------------------------
(* pdokLookupPostalCode (src/utils/pdok.ts): the scan of the documents of  *)
(* the response for a postal code.                                         *)

\* Documents per response.
MaxDocs == 2

\* A field of a document is missing, the empty string, or a code.
Undefined == "<undefined>"
PostcodeValues    == {Undefined, "", "1011AB"}
PostalcodeValues  == {Undefined, "", "1012CD"}
Pc6Values         == {Undefined, "", "1017GB"}

Docs == [postcode : PostcodeValues, postalcode : PostalcodeValues, pc6 : Pc6Values]

DocLists == UNION { [1..n -> Docs] : n \in 0..MaxDocs }

\* What JavaScript takes as true in a condition and in ||.
Truthy(v) == v \notin {Undefined, ""}

\* A scan that prefers pc6.
DocPostcodePc6First(doc) ==
  IF Truthy(doc.pc6) THEN doc.pc6
  ELSE IF Truthy(doc.postcode) THEN doc.postcode
  ELSE doc.postalcode

\* doc?.postcode || doc?.postalcode || doc?.pc6
DocPostcode(doc) ==
  IF Truthy(doc.postcode) THEN doc.postcode
  ELSE IF Truthy(doc.postalcode) THEN doc.postalcode
  ELSE doc.pc6

LookupAt(p) == layout.kind = "pdok" /\ lookup.pos = p

\* A request whose status is not looked at.
PdokGetUnchecked ==
  /\ LookupAt("get")
  /\ lookup' = [lookup EXCEPT !.pos = "json"]
  /\ UNCHANGED <<pagevars, run>>

\* const response = await request.get(lookupUrl); if (!response.ok()) throw
PdokGet ==
  /\ LookupAt("get")
  /\ lookup' = IF lookup.ok
               THEN [lookup EXCEPT !.pos = "json"]
               ELSE [lookup EXCEPT !.pos = "done", !.status = "thrown",
                                   !.error = "RequestFailed"]
  /\ UNCHANGED <<pagevars, run>>

\* const docs = responseData?.response?.docs || []
PdokJson ==
  /\ LookupAt("json")
  /\ lookup' = [lookup EXCEPT !.pos = "scan",
                              !.docs = IF lookup.hasDocs THEN lookup.body ELSE <<>>,
                              !.i = 1]
  /\ UNCHANGED <<pagevars, run>>

\* One turn of for (const doc of docs), or the throw after the loop.
PdokScan ==
  /\ LookupAt("scan")
  /\ lookup' =
       IF lookup.i > Len(lookup.docs)
       THEN [lookup EXCEPT !.pos = "done", !.status = "thrown",
                           !.error = "NoPostcode"]
       ELSE IF Truthy(DocPostcode(lookup.docs[lookup.i]))
            THEN [lookup EXCEPT !.pos = "done", !.status = "returned",
                                !.result = DocPostcode(lookup.docs[lookup.i])]
            ELSE [lookup EXCEPT !.i = @ + 1]
  /\ UNCHANGED <<pagevars, run>>

InitLookup ==
  /\ layout = NoLayout("pdok")
  /\ inputs = <<>>
  /\ boxes = <<>>
  /\ radios = <<>>
  /\ sel = NoSelect
  /\ btn = NoButton
  /\ run = NoRun
  /\ \E ok \in BOOLEAN, hd \in BOOLEAN, ds \in DocLists :
       /\ ~hd => ds = <<>>
       /\ lookup = [pos |-> "get", ok |-> ok, hasDocs |-> hd, body |-> ds,
                    docs |-> <<>>, i |-> 0, status |-> "running",
                    result |-> Undefined, error |-> "none"]

Init ==
  /\ call = NoCall
  /\ pc = "idle"
  /\ strat = "none"
  /\ el = "none"
  /\ trace = <<>>
  /\ completed = <<>>
  /\ outcome = Running
  /\ ncalls = 0
  /\ before = NoBefore
  /\ \/ /\ run = NoRun
        /\ lookup = NoLookup
        /\ \/ InitFill
           \/ InitCheckbox
           \/ InitRadio
           \/ InitSelect
           \/ InitProceed
     \/ InitFlow
     \/ InitLookup

Next ==
  \/ InvokeFill
  \/ FillAccProbe
  \/ FillRawLabel
  \/ FillRawInput
  \/ SetInputClick
  \/ SetInputFill
  \/ SetInputReadBack
  \/ SetInputClear
  \/ SetInputType
  \/ SetInputVerify
  \/ SetInputTab
  \/ InvokeCheckbox
  \/ CbAcc
  \/ CbAcc2
  \/ CbBqProbe
  \/ CbBqClick
  \/ CbRawLabel
  \/ CbRawCheck
  \/ CbRawClick
  \/ InvokeRadio
  \/ RdAcc
  \/ RdBqProbe
  \/ RdBqClick
  \/ RdRawProbe
  \/ RdRawCheck
  \/ InvokeSelect
  \/ SelAccClick
  \/ SelBqProbe
  \/ SelBqClick
  \/ SelRawLabel
  \/ SelRawClick
  \/ SoRole
  \/ SoMat
  \/ SoText
  \/ InvokeProceed
  \/ ButtonEnables
  \/ PrVisible
  \/ PrEnabled
  \/ PrScroll
  \/ PrClick
  \/ PrDomClick
  \/ PrWaitStable
  \/ FlowEnv
  \/ FlowPage
  \/ FlowWait
  \/ FlowLook
  \/ FlowThrow
  \/ FlowPure
  \/ FlowReady
  \/ FlowOp
  \/ FlowLookupCall
  \/ PdokGet
  \/ PdokJson
  \/ PdokScan

Spec == Init /\ [][Next]_vars

-----------------------------------------------------------------------------
(* Properties.                                                             *)

SemanticOps == {"fillTextByLabel", "selectMatOptionByLabel", "setRadioByLabel",
                "setCheckboxByLabel"}

FirstStrategy == Head(Chain(call.op))

FirstStrategySucceeded == completed # <<>> /\ Head(completed) = FirstStrategy

\* Events that act on an element of the page.
ActionEvents == {"click", "fill", "clear", "type", "tab", "check", "roleOption",
                 "matOption", "textClick", "domClick"}

ReturnedFrom(op) == call.op = op /\ pc = "done" /\ outcome = Returned

FailedWith(kind) == outcome.status = "thrown" /\ FailureKind(outcome.step) = kind

\* C1: in a call of one of the four semantic operations in which the first
\* strategy ran to its end, the call has returned normally and everything
\* the call did was done by that first strategy: no later strategy was
\* invoked.
C1_ChainShortCircuit ==
  (call.op \in SemanticOps /\ FirstStrategySucceeded) =>
    /\ pc = "done"
    /\ outcome = Returned
    /\ completed = <<FirstStrategy>>
    /\ \A k \in 1..Len(trace) : trace[k].s = FirstStrategy

C1_Witness ==
  /\ call.op \in SemanticOps
  /\ FirstStrategySucceeded
  /\ outcome = Returned
  /\ trace # <<>>

\* C2: within one call of a semantic operation, once a strategy has acted on
\* an element, every later probe or action of the call belongs to that same
\* strategy, also when its action or verification failed.
C2_SingleCommittedStrategy ==
  call.op \in SemanticOps =>
    \A j, k \in 1..Len(trace) :
      (j < k /\ trace[j].a \in ActionEvents) => trace[k].s = trace[j].s

\* C3: a call of a semantic operation in which every strategy missed ends by
\* throwing a resolution failure that names the label text the caller passed
\* (the group label for setRadioByLabel).
C3_ExhaustionNamesLabel ==
  (/\ call.op \in SemanticOps
   /\ pc = "done"
   /\ \A k \in 1..Len(trace) : trace[k].a = "miss")
  => /\ FailedWith("ResolutionFailed")
     /\ call.label \in outcome.refs

\* C4 as stated: whenever fillTextByLabel returns normally, the field the
\* label designates holds exactly the value.
C4_DesignatedFieldHoldsValue ==
  ReturnedFrom("fillTextByLabel") => inputs[layout.designated].value = call.value

\* C4 as amended: whenever fillTextByLabel returns normally, the input
\* resolved by the strategy that ran to its end holds exactly the value; that
\* input is the designated field when the accessible strategy resolved it,
\* and the target of the first label containing the label text when the
\* raw-DOM strategy did.
C4_ResolvedFieldHoldsValue ==
  ReturnedFrom("fillTextByLabel") =>
    /\ el \in DOMAIN inputs
    /\ inputs[el].value = call.value
    /\ strat = "acc" => el = layout.designated
    /\ strat = "raw" => el = RawTarget(FirstLabelHasText(call.label))

C4_Witness ==
  /\ ReturnedFrom("fillTextByLabel")
  /\ strat = "raw"
  /\ el # layout.designated
  /\ inputs[el].value = call.value

C6_VerificationFailureIsFatal ==
  (/\ call.op = "fillTextByLabel"
   /\ pc = "done"
   /\ \E k \in 1..Len(trace) : trace[k].s = "acc" /\ trace[k].a = "verifyFailed")
  => /\ outcome # Returned
     /\ ~FailedWith("ResolutionFailed")

\* C7: whenever setCheckboxByLabel returns normally, the designated checkbox
\* is checked.
C7_CheckboxEndsChecked ==
  ReturnedFrom("setCheckboxByLabel") => boxes[layout.designated]

\* C8: whenever setRadioByLabel returns normally, the option named by
\* optionText is the checked option of the group named by groupLabel.
C8_NamedOptionChecked ==
  ReturnedFrom("setRadioByLabel") => radios["g1"] = layout.designated

\* C9: whenever selectMatOptionByLabel returns normally, the select control
\* has optionText as its selected value.
C9_OptionSelected ==
  ReturnedFrom("selectMatOptionByLabel") => sel.selected = call.value

\* C10: clickProceed delivers no click to the button while it is disabled:
\* every click of a call (standard or DOM click) comes after the call saw the
\* button enabled, and a call that ends with the button still disabled ends
\* in the timeout failure of the enabled check without any click delivered.
C10_NoClickWhileDisabled ==
  call.op = "clickProceed" =>
    /\ ~btn.clickedDisabled
    /\ \A k \in 1..Len(trace) :
         trace[k].a \in {"click", "domClick"} =>
           \E j \in 1..(k - 1) : trace[j].a = "enabledSeen"
    /\ (pc = "done" /\ layout.visible /\ ~btn.enabled) =>
         /\ FailedWith("Timeout")
         /\ outcome.step = "toBeEnabled"
         /\ \A k \in 1..Len(trace) : trace[k].a \notin {"click", "domClick"}

C10_Witness ==
  /\ ReturnedFrom("clickProceed")
  /\ \E j, k \in 1..Len(trace) :
       /\ j < k
       /\ trace[j] = Event("page", "enabled", "button")
       /\ trace[k].a \in {"click", "domClick"}

\* C11: whenever clickProceed has returned normally, the last thing it did
\* was a completed waitForStableLoad, and that wait came after the click
\* (the standard click or the DOM click of the fallback path): no return
\* lies between the click and the stable load.
C11_StableWaitBeforeReturn ==
  ReturnedFrom("clickProceed") =>
    /\ Len(trace) >= 2
    /\ trace[Len(trace)] = Event("main", "stable", "page")
    /\ trace[Len(trace) - 1].a \in {"click", "domClick"}
    /\ btn.clicks >= 1

C11_Witness ==
  /\ ReturnedFrom("clickProceed")
  /\ \E j \in 1..(Len(trace) - 2) :
       /\ trace[j].a = "clickFailed"
       /\ trace[j + 1].a = "domClick"
       /\ trace[j + 2].a = "stable"

\* C12: when a call of a semantic operation has thrown, the page is as the
\* call found it or as the call was asked to make it: every field holds the
\* value it had or the requested value (nothing partial, nothing cleared),
\* no option other than the requested one has been selected or checked, and
\* the option list is not open unless it was open before the call.
C12_FailureLeavesPageClean ==
  (call.op \in SemanticOps /\ outcome.status = "thrown") =>
    /\ \A i \in DOMAIN inputs :
         inputs[i].value \in {before.inputs[i].value, call.value}
    /\ sel.selected \in {before.sel.selected, call.value}
    /\ \A g \in DOMAIN radios :
         radios[g] = before.radios[g] \/ radios[g] = layout.designated
    /\ \A c \in DOMAIN boxes :
         boxes[c] = before.boxes[c] \/ (c = layout.designated /\ boxes[c])
    /\ sel.open => before.sel.open

\* A call of fillTextByLabel that ended, made with the arguments of the call
\* before it, which returned normally.
SecondFillEnded ==
  /\ call.op = "fillTextByLabel"
  /\ pc = "done"
  /\ ncalls >= 2
  /\ before.prev = "returned"
  /\ before.prevValue = call.value

\* C13: when fillTextByLabel(label, value) has returned normally and is
\* called again with the same arguments, the second call returns normally
\* too and the fields of the page hold after it what they held after the
\* first call.
C13_FillIdempotent ==
  SecondFillEnded =>
    /\ outcome = Returned
    /\ \A i \in DOMAIN inputs : inputs[i].value = before.inputs[i].value

\* The second call does return, and the input it resolved (the same one as
\* the first call's) holds what it held after the first call.
FillIdempotentOnResolvedInput ==
  SecondFillEnded =>
    /\ outcome = Returned
    /\ inputs[el].value = before.inputs[el].value

\* The order of the three strategy kinds the claim names.
KindRank(s) == CASE s = "acc" -> 1 [] s = "bq" -> 2 [] s = "raw" -> 3 [] OTHER -> 0

StrategiesOf(op) ==
  CASE op = "fillTextByLabel"    -> <<"acc", "raw">>
    [] op = "setCheckboxByLabel" -> <<"acc", "acc2", "bq", "raw">>
    [] OTHER                     -> <<"acc", "bq", "raw">>

\* What a strategy logs last when it throws: a miss, a failed action, or
\* the miss of the last option strategy of selectMatOption.
Threw(e) ==
  \/ e.a \in {"miss", "clickFailed", "checkFailed", "verifyFailed"}
  \/ e.a = "optionMiss" /\ e.el = "text"

OptionAttempts(n) ==
  { k \in 1..Len(trace) :
      \/ trace[k].a = "optionMiss" /\ trace[k].el = n
      \/ n = "roleOption" /\ trace[k].a = "roleOption"
      \/ n = "matOption" /\ trace[k].a = "matOption"
      \/ n = "text" /\ trace[k].a = "textClick" }

\* C15: within one call of a semantic operation no strategy is attempted
\* twice: the events of a strategy of the chain are not resumed after
\* another strategy's, and each of the three option strategies of
\* selectMatOption is attempted at most once.
C15_NoStrategyTwice ==
  call.op \in SemanticOps =>
    /\ \A i, j, k \in 1..Len(trace) :
         (i < j /\ j < k /\ trace[i].s = trace[k].s) => trace[j].s = trace[i].s
    /\ \A n \in {"roleOption", "matOption", "text"} :
         Cardinality(OptionAttempts(n)) <= 1

\* C16: in the notification flow, when a semantic operation has thrown, the
\* run has ended as failed at that operation with the operation's failure,
\* and that operation is the last step the run executed: no catch clause of
\* the test body took the failure.
C16_OperationFailureEndsRun ==
  (run.pos > 0 /\ run.opFailed # 0) =>
    /\ run.status = "failed"
    /\ run.failedAt = run.opFailed
    /\ run.error = "OperationFailed"
    /\ run.log[Len(run.log)] = run.opFailed
    /\ Flow[run.opFailed].kind = "op"

C16_Witness ==
  /\ run.pos > 0
  /\ run.status = "failed"
  /\ run.opFailed = PosOf(190)

\* The steps of a kind among the executed ones.
Executed(kind) == { k \in 1..Len(run.log) : Flow[run.log[k]].kind = kind }

\* C18: every semantic operation the flow has executed comes after a
\* waitAfterOpenForm that saw the heading visible; and when the heading does
\* not become visible, a run that got to waitAfterOpenForm has failed there
\* with a timeout and has executed no semantic operation.
C18_ReadyBeforeForm ==
  run.pos > 0 =>
    /\ \A k \in Executed("op") :
         /\ run.ready
         /\ run.heading
         /\ \E j \in Executed("ready") : j < k
    /\ (~run.heading /\ Executed("ready") # {}) =>
         /\ run.status = "failed"
         /\ Flow[run.failedAt].line = 50
         /\ run.error = "Timeout"
         /\ Executed("op") = {}

C18_Witness ==
  /\ run.pos > 0
  /\ run.ready
  /\ Executed("op") # {}

\* C19: in a run in which a required parameter is absent or empty, the flow
\* does nothing to the page (no navigation, click, fill or semantic
\* operation) and ends with the configuration error.
C19_ConfigErrorBeforePage ==
  (run.pos > 0 /\ run.bad # "none") =>
    /\ Executed("page") = {}
    /\ Executed("op") = {}
    /\ run.status # "running" => run.error = "ConfigMissing"

\* C17: a call of a semantic operation begins only when the call before it
\* on the page has failed or has returned with its action checked against
\* the page.  (Calls never overlap: each is awaited.)
C17_NextAfterVerified ==
  (call.op \in SemanticOps /\ ncalls >= 2) =>
    \/ before.prev = "thrown"
    \/ before.prev = "returned" /\ before.prevVerified

PostcodeFields == <<"postcode", "postalcode", "pc6">>

\* The documents of the response that carry a non-empty value under one of
\* the three fields and have no such document before them.
FirstCarrying(ds) ==
  LET Carries(d) == \E n \in 1..3 : d[PostcodeFields[n]] \notin {Undefined, ""}
  IN { k \in 1..Len(ds) : Carries(ds[k]) /\ \A j \in 1..(k - 1) : ~Carries(ds[j]) }

\* C20: for a successful response, when some document carries a non-empty
\* value under postcode, postalcode or pc6, the lookup returns the value of
\* the first such document, taken from the first of the three fields (in
\* that order) that is non-empty in it; it returns nothing else, never an
\* empty value; a response whose only document is {pc6: "1017GB"} yields
\* "1017GB".
C20_FirstDocumentPostcode ==
  (layout.kind = "pdok" /\ lookup.pos = "done" /\ lookup.ok /\ lookup.hasDocs) =>
    LET ds == lookup.body IN
    /\ \A k \in FirstCarrying(ds) :
         /\ lookup.status = "returned"
         /\ \E n \in 1..3 :
              /\ lookup.result = ds[k][PostcodeFields[n]]
              /\ \A m \in 1..(n - 1) : ds[k][PostcodeFields[m]] \in {Undefined, ""}
    /\ lookup.status = "returned" =>
         /\ lookup.result \notin {Undefined, ""}
         /\ FirstCarrying(ds) # {}
    /\ ds = <<[postcode |-> Undefined, postalcode |-> Undefined, pc6 |-> "1017GB"]>>
         => lookup.result = "1017GB"

C20_Witness ==
  /\ layout.kind = "pdok"
  /\ lookup.status = "returned"
  /\ Len(lookup.body) = 2
  /\ lookup.body[1] = [postcode |-> "", postalcode |-> Undefined, pc6 |-> ""]
  /\ lookup.body[2].postcode = Undefined
  /\ lookup.body[2].postalcode = "1012CD"
  /\ lookup.result = "1012CD"

\* C21: the lookup ends with an error, and without a value, exactly when the
\* endpoint answered with a non-success status or no document of the
\* response carries a non-empty postcode, postalcode or pc6 (a response
\* without documents included); in the flow a failed lookup ends the run at
\* the lookup, before the work-location postal code field is filled.
C21_LookupFailsExactlyWhen ==
  /\ (layout.kind = "pdok" /\ lookup.pos = "done") =>
       LET ds == IF lookup.hasDocs THEN lookup.body ELSE <<>> IN
       /\ lookup.status = "thrown" <=> (~lookup.ok \/ FirstCarrying(ds) = {})
       /\ lookup.status = "thrown" =>
            /\ lookup.result = Undefined
            /\ lookup.error = IF lookup.ok THEN "NoPostcode" ELSE "RequestFailed"
       /\ lookup.status = "returned" => lookup.error = "none"
  /\ (layout.kind = "flow" /\ run.error = "ExternalLookupFailed") =>
       /\ run.status = "failed"
       /\ Flow[run.failedAt].line = 264
       /\ \A k \in 1..Len(run.log) : Flow[run.log[k]].line <= 264

\* A success response whose two documents carry no postcode.
C21_Witness ==
  /\ layout.kind = "pdok"
  /\ lookup.status = "thrown"
  /\ lookup.ok
  /\ lookup.hasDocs
  /\ Len(lookup.body) = 2
  /\ lookup.body[1].postcode = ""
  /\ lookup.body[2].pc6 = ""

\* The markup shapes of a page whose elements all respond: the designated
\* control is visible and takes clicks and input, its labels are visible and
\* take clicks, the wanted option is in the list as a mat-option with role
\* option, and no other element shows the option text.
Responsive ==
  /\ \A k \in 1..Len(layout.labels) : layout.labels[k].visible
  /\ layout.kind = "fill" =>
       /\ inputs[layout.designated].visible
       /\ inputs[layout.designated].clickable
       /\ inputs[layout.designated].mode = "plain"
  /\ layout.kind \in {"checkbox", "radio"} =>
       /\ layout.labelsClickable
       /\ layout.actionable[layout.designated]
  /\ layout.kind = "select" =>
       /\ layout.triggerClickable
       /\ ~layout.strayText
       /\ \E k \in 1..Len(layout.options) :
            layout.options[k] = Option(SelOption, TRUE, TRUE)

\* The labels that stand for the designated control: through their for
\* attribute when they have one, else by wrapping it, by sharing its parent,
\* or by acting on it when clicked.
LabelsOfDesignated ==
  { k \in 1..Len(layout.labels) :
      LET l == layout.labels[k] IN
      IF l.for # "" THEN l.for = layout.designated
      ELSE layout.designated \in {l.nested, l.parentInput, l.target} }

Wrapped == layout.kind # "fill" /\ layout.bqLabels # <<>>

\* Accessible markup alone: the control carries the label text as its
\* accessible name (for a radio: inside a radiogroup named by the group
\* label), outside any component-library wrapper.
AccessibleShape ==
  /\ ~Wrapped
  /\ IF layout.kind = "radio"
     THEN layout.roleGroup /\ GetByLabel({"r1", "r2"}, call.value) = {"r1"}
     ELSE GetByLabel({layout.designated}, call.label) = {layout.designated}

\* Component-library markup alone: the wrapper holds the label with the
\* text, and the control has no accessible name.
WrapperShape ==
  /\ Wrapped
  /\ WrapperLabels(call.label) # <<>>
  /\ AccNames(layout.designated) = {}
  /\ layout.kind = "radio" => ~layout.roleGroup

\* Raw label plus input markup alone: a label with the text stands for the
\* control, which has no accessible name equal to the text and no wrapper.
RawShape ==
  /\ ~Wrapped
  /\ layout.kind = "radio" => ~layout.roleGroup
  /\ GetByLabel({layout.designated},
                IF layout.kind = "radio" THEN call.value ELSE call.label) = {}
  /\ layout.aria[layout.designated] = <<>>
  /\ \E k \in LabelsOfDesignated :
       HasText(layout.labels[k].text,
               IF layout.kind = "radio" THEN call.value ELSE call.label)

\* The control the call was made for is in the state the call asks for.
IntendedState ==
  CASE call.op = "fillTextByLabel"        -> inputs[layout.designated].value = call.value
    [] call.op = "selectMatOptionByLabel" -> sel.selected = call.value
    [] call.op = "setRadioByLabel"        -> radios[RadioGroupOf(layout.designated)] = layout.designated
    [] call.op = "setCheckboxByLabel"     -> boxes[layout.designated]
    [] OTHER                              -> TRUE

\* C22: on a page that presents the target of a semantic operation in one of
\* the three shapes alone (accessible markup, component-library markup, raw
\* label plus input markup), the call returns normally with the control in
\* the intended state.
C22_ShapeCoverage ==
  (/\ call.op \in SemanticOps
   /\ ncalls = 1
   /\ pc = "done"
   /\ Responsive
   /\ AccessibleShape \/ WrapperShape \/ RawShape) =>
    /\ outcome = Returned
    /\ IntendedState

\* C23: when the label of the select resolves only through the bq-select
\* wrapper (the accessible lookup misses) and the list holds the option named
\* exactly as asked, the call clicks the trigger of the wrapper and then the
\* option with exactly that name, not one whose text merely contains it.
C23_ExactOptionThroughWrapper ==
  (/\ call.op = "selectMatOptionByLabel"
   /\ ncalls = 1
   /\ pc = "done"
   /\ GetByLabel({"s1"}, call.label) = {}
   /\ WrapperLabels(call.label) # <<>>
   /\ layout.triggerClickable
   /\ \E k \in 1..Len(layout.options) : layout.options[k].text = call.value) =>
    /\ outcome = Returned
    /\ completed = <<"bq">>
    /\ \E k \in 1..(Len(trace) - 1) :
         /\ trace[k] = Event("bq", "click", "s1")
         /\ trace[Len(trace)].s = "bq"
         /\ trace[Len(trace)].a \in {"roleOption", "matOption", "textClick"}
         /\ trace[Len(trace)].el = "option"
    /\ sel.selected = call.value

\* C24: a strategy that fails and lets the chain advance leaves the page as
\* it was when the strategy started.  Stated at the start of every strategy
\* after the first one: field values, checked states and the open option
\* list are then those of the start of the call, which is the same as every
\* failed strategy having left the page as it found it.
C24_MissLeavesPageUnchanged ==
  (/\ call.op \in SemanticOps
   /\ strat # Head(Chain(call.op))
   /\ pc = StrategyEntry(call.op, strat)) =>
    /\ inputs = before.inputs
    /\ boxes = before.boxes
    /\ radios = before.radios
    /\ sel = before.sel

\* C25: in selectMatOptionByLabel every element clicked as the option, by
\* any of the three option strategies, is an option of the list this call
\* opened for the labelled control.
C25_OptionClickInsideOpenList ==
  call.op = "selectMatOptionByLabel" =>
    \A k \in 1..Len(trace) :
      trace[k].a \in {"roleOption", "matOption", "textClick"} =>
        /\ trace[k].el = "option"
        /\ \E j \in 1..(k - 1) :
             /\ trace[j].a = "click"
             /\ trace[j].s = trace[k].s

\* C26: in the last strategy of setRadioByLabel and of setCheckboxByLabel a
\* failed check() on the resolved input is followed by a click on the label,
\* and the call fails only when that click fails too.
C26_LabelClickAfterFailedCheck ==
  call.op \in {"setRadioByLabel", "setCheckboxByLabel"} =>
    \A k \in 1..Len(trace) :
      (trace[k].s = "raw" /\ trace[k].a = "checkFailed") =>
        IF k = Len(trace)
        THEN pc # "done"
        ELSE /\ trace[k + 1].s = "raw"
             /\ trace[k + 1].a \in {"click", "clickFailed"}
             /\ outcome.status = "thrown" => trace[k + 1].a = "clickFailed"

DomClickEvents == {"domClick", "domClickIgnored"}

\* The standard click threw: before the click was delivered, or after.
FailedClickEvents == {"clickFailed", "clickThrewLate"}

\* C27: in clickProceed a failed standard click is followed by the click
\* invoked on the element itself and then by the stable wait; the DOM click
\* is made only directly after a failed standard click, never after a
\* successful one.
C27_DomClickOnlyAfterFailedClick ==
  call.op = "clickProceed" =>
    \A k \in 1..Len(trace) :
      /\ trace[k].a \in DomClickEvents =>
           /\ k > 1
           /\ trace[k - 1].a \in FailedClickEvents
      /\ trace[k].a = "click" =>
           \A j \in (k + 1)..Len(trace) : trace[j].a \notin DomClickEvents
      /\ trace[k].a \in FailedClickEvents =>
           IF k = Len(trace) THEN pc = "pr_domclick"
           ELSE /\ trace[k + 1].a \in DomClickEvents
                /\ IF k + 1 = Len(trace) THEN pc = "pr_wait"
                   ELSE trace[k + 2].a \in {"stable", "notStable"}

C27_Witness ==
  /\ ReturnedFrom("clickProceed")
  /\ \E k \in 1..(Len(trace) - 2) :
       /\ trace[k].a = "clickFailed"
       /\ trace[k + 1].a = "domClick"
       /\ trace[k + 2].a = "stable"

TabEvents == {"tab", "tabFailed"}

\* C28: the Tab press is attempted only directly after the value check
\* passed, and once the value check passed the call returns normally whether
\* the press succeeded or failed.
C28_TabFailureSwallowed ==
  call.op = "fillTextByLabel" =>
    \A k \in 1..Len(trace) :
      /\ trace[k].a \in TabEvents =>
           /\ k > 1
           /\ trace[k - 1] = Event(trace[k].s, "verified", trace[k].el)
      /\ trace[k].a = "verified" =>
           IF k = Len(trace) THEN pc = "si_tab" /\ outcome = Running
           ELSE /\ trace[k + 1].a \in TabEvents
                /\ k + 1 = Len(trace)
                /\ pc = "done"
                /\ outcome = Returned

C28_Witness ==
  /\ ReturnedFrom("fillTextByLabel")
  /\ Len(trace) > 1
  /\ trace[Len(trace)].a = "tabFailed"
  /\ trace[Len(trace) - 1].a = "verified"

\* Whether an element of the page is visible.  Of the select control the
\* page only tells whether it can be clicked; one that is not visible is
\* one that cannot.
VisibleElement(e) ==
  CASE layout.kind = "fill" /\ e \in DOMAIN inputs -> inputs[e].visible
    [] layout.kind \in {"checkbox", "radio"} /\ e \in DOMAIN layout.shown -> layout.shown[e]
    [] layout.kind = "select" /\ e = "s1" -> layout.triggerClickable
    [] LabelById(e) # NoLabel -> LabelById(e).visible
    [] OTHER -> TRUE

ElementActions == {"click", "fill", "clear", "type", "check", "tab"}

\* The control was checked when the call started.
CheckedAtStart(e) ==
  IF layout.kind = "checkbox" THEN before.boxes[e]
  ELSE before.radios[RadioGroupOf(e)] = e

RawActsOn(i) ==
  \E k \in 1..Len(trace) :
    /\ trace[k].s = "raw"
    /\ trace[k].a \in {"resolved"} \cup ElementActions
    /\ trace[k].el = i

\* C30: in the raw-DOM strategy of fillTextByLabel the input acted on is the
\* element whose id is the for attribute of the label when the label has a
\* non-empty one, and otherwise the first input or textarea under the
\* label's parent; with a for attribute the parent's input is never taken
\* instead, also when the referenced element does not exist or is not
\* visible: the call then fails.
C30_RawTargetByForAttribute ==
  (call.op = "fillTextByLabel" /\ strat = "raw") =>
    LET label == FirstLabelHasText(call.label) IN
    /\ \A i \in DOMAIN inputs :
         RawActsOn(i) => i = (IF label.for # "" THEN label.for ELSE label.parentInput)
    /\ (/\ label.for # ""
        /\ pc = "done"
        /\ label.for \notin DOMAIN inputs \/ ~inputs[label.for].visible) =>
         /\ outcome.status = "thrown"
         /\ \A i \in DOMAIN inputs : ~RawActsOn(i)

\* The label names an element that does not exist while an input stands
\* under its parent: the call has failed.
C30_Witness ==
  /\ call.op = "fillTextByLabel"
  /\ pc = "done"
  /\ strat = "raw"
  /\ FirstLabelHasText(call.label).for = "gone"
  /\ FirstLabelHasText(call.label).parentInput = "i1"
  /\ inputs["i1"].visible
  /\ outcome.status = "thrown"

\* C31: every call of an operation ends by returning or by a throw of one
\* of its own waits: every awaited call in it carries a bound of its own,
\* and no call is left waiting until the timeout of the test ends it.
C31_EveryWaitBounded ==
  (call.op # "none" /\ pc = "done") =>
    /\ outcome.status \in {"returned", "thrown"}
    /\ outcome.step # "testTimeout"

\* The source lines of the steps the run has executed, in order.
LogLines == [k \in 1..Len(run.log) |-> Flow[run.log[k]].line]

\* The source line of the step that came, or comes, after the k-th executed
\* step; 0 when the run ended with it.
LineAfter(k) ==
  IF k < Len(run.log) THEN LogLines[k + 1]
  ELSE IF run.status = "running" THEN Flow[run.pos].line ELSE 0

ManualEntryLines == 169..207

\* C32: in the trade-register step the run does not fail when no "Select"
\* result exists or the click on it fails: the manual-entry branch is taken
\* (the dialog is closed when its button is found, more search options are
\* opened, manual entry is chosen, registration number and company name are
\* filled) and the VAT step follows; when the click and the stable wait
\* after it succeed, no step of the manual-entry branch is executed.
C32_ManualEntryBranch ==
  layout.kind = "flow" =>
    /\ run.status = "failed" => Flow[run.failedAt].line \notin 155..163
    /\ \A k \in 1..Len(run.log) :
         /\ LogLines[k] = 157 => LineAfter(k) \in {159, 161, 169}
         /\ LogLines[k] = 161 => LineAfter(k) = 169
         /\ LogLines[k] = 159 =>
              LineAfter(k) = IF run.log[k] \in run.threw THEN 169 ELSE 163
         /\ LogLines[k] = 163 =>
              IF run.log[k] \in run.threw
              THEN LineAfter(k) = 169
              ELSE /\ LineAfter(k) = 210
                   /\ \A j \in 1..Len(run.log) : LogLines[j] \notin ManualEntryLines
         /\ (LogLines[k] = 210 /\ \E j \in 1..k : LogLines[j] = 169) =>
              /\ k > 7
              /\ <<LogLines[k - 7], LogLines[k - 6], LogLines[k - 5], LogLines[k - 4],
                    LogLines[k - 3], LogLines[k - 2], LogLines[k - 1]>>
                   = <<183, 186, 187, 190, 195, 197, 202>>
         /\ (LogLines[k] = 179) => k > 2 /\ LogLines[k - 1] = 177 /\ LogLines[k - 2] = 172

\* No "Select" result was found, and the run has gone through the manual
\* entry and the VAT step to its end.
C32_Witness ==
  /\ layout.kind = "flow"
  /\ run.status = "passed"
  /\ \E k \in 1..Len(run.log) : LogLines[k] = 161
  /\ \E k \in 1..Len(run.log) : LogLines[k] = 179
  /\ \E k \in 1..Len(run.log) : LogLines[k] = 210

\* The k-th executed step is that of source line n and went through.
WentThrough(k, n) == LogLines[k] = n /\ run.log[k] \notin run.threw

\* C33: "Submit notification" is clicked only after setCheckboxByLabel for
\* the declaration has returned normally; the OK button is clicked at most
\* twice; Logout is clicked only after the submit click and at least one OK
\* click.
C33_SubmitOkLogoutOrder ==
  layout.kind = "flow" =>
    /\ \A k \in 1..Len(run.log) :
         /\ LogLines[k] = 320 =>
              /\ \E j \in 1..(k - 1) : WentThrough(j, 316)
              /\ run.opFailed # PosOf(316)
         /\ LogLines[k] = 333 =>
              /\ \E j \in 1..(k - 1) : WentThrough(j, 320)
              /\ \E j \in 1..(k - 1) : WentThrough(j, 326)
    /\ Cardinality({ k \in 1..Len(run.log) : LogLines[k] \in {326, 331} }) <= 2
    /\ \A n \in {326, 331} :
         Cardinality({ k \in 1..Len(run.log) : LogLines[k] = n }) <= 1

\* A run that clicked OK twice and then Logout.
C33_Witness ==
  /\ layout.kind = "flow"
  /\ run.status = "passed"
  /\ \E a, b \in 1..Len(run.log) :
       /\ a < b
       /\ WentThrough(a, 326)
       /\ WentThrough(b, 331)
       /\ \E c \in (b + 1)..Len(run.log) : LogLines[c] = 333

\* C34: whenever selectMatOptionByLabel starts the option resolution, the
\* option list of the labelled control is open: a trigger click of an
\* earlier strategy whose option resolution failed does not make the
\* trigger click of a later strategy close the list.
C34_ListOpenAtOptionResolution ==
  (call.op = "selectMatOptionByLabel" /\ pc = "so_role") => sel.open

\* C35: setRadioByLabel leaves the options of every group other than the
\* one named by the group label as they were, in each of its strategies,
\* also when the named group cannot be resolved and another group holds an
\* option with the same text.
C35_OtherGroupsUntouched ==
  call.op = "setRadioByLabel" =>
    \A g \in DOMAIN radios :
      g # RadioGroupOf(layout.designated) => radios[g] = before.radios[g]

\* C36: one call of clickProceed delivers at most one click to the proceed
\* button: the standard click and the DOM click of the fallback never both
\* take effect in the same call.
C36_AtMostOneClickDelivered ==
  call.op = "clickProceed" =>
    Cardinality({ k \in 1..Len(trace) :
                    trace[k].a \in {"click", "clickThrewLate", "domClick"} }) <= 1

\* The clicks of the test body that change the page: login (45), open
\* notification (49), trade-register search (151), Summary (308) and Submit
\* (320).  The Next clicks are made inside clickProceed, which waits itself.
PageChangingClicks == {45, 49, 151, 308, 320}

\* The k-th executed step is a wait that completed.
CompletedWait(k) ==
  /\ Flow[run.log[k]].kind \in {"wait", "ready"}
  /\ run.log[k] \notin run.threw

\* C37: in the notification flow every click that changes the page is
\* followed by a completed waitForStableLoad or waitAfterOpenForm before the
\* next semantic operation acts on the page.
C37_WaitBetweenClickAndOperation ==
  layout.kind = "flow" =>
    \A k \in 1..Len(run.log) :
      (LogLines[k] \in PageChangingClicks /\ run.log[k] \notin run.threw) =>
        \A j \in (k + 1)..Len(run.log) :
          Flow[run.log[j]].kind = "op" =>
            \E i \in (k + 1)..(j - 1) : CompletedWait(i)

====
